---- MODULE Spec2Model ----
(***************************************************************************)
(* Cost Center Analyzer (src/src/App.tsx): the load pipeline               *)
(* (file / drop / API fetch -> JSON.parse -> processJsonData -> jsonData), *)
(* the filter/sort engine (filteredAndSortedCostCenters) and the report    *)
(* export (exportReport), as a state machine over the component's state.   *)
(*                                                                         *)
(* JavaScript values are tagged records: k is the value's kind, objects    *)
(* carry their own properties as further fields (an absent property is an  *)
(* absent field).  Strings are sequences of one-character strings so that  *)
(* toLowerCase and includes can be computed.                               *)
(***************************************************************************)
EXTENDS Integers, Sequences, FiniteSets, TLC

\* Longest record list of an input document.
MaxCenters == 3
\* Most asynchronous load operations (file reads, HTTP requests) in flight.
MaxPending == 2

-----------------------------------------------------------------------------
(* JavaScript values                                                       *)

Undefined == [k |-> "undefined"]
Null == [k |-> "null"]
Str(s) == [k |-> "string", s |-> s]
Num(n) == [k |-> "number", v |-> "finite", n |-> n]
\* The number JSON.parse yields for a literal beyond the double range (1e999).
Infinity == [k |-> "number", v |-> "Infinity"]
Arr(items) == [k |-> "array", items |-> items]

Nullish(v) == v.k \in {"undefined", "null"}

\* v.p for a value v that is not null or undefined.
Get(v, p) == IF v.k = "object" /\ p \in DOMAIN v THEN v[p] ELSE Undefined

\* ToBoolean(v), as `!v` and `a && b` use it.
Truthy(v) ==
  CASE v.k = "string" -> v.s # << >>
    [] v.k = "number" -> (v.v = "Infinity" \/ v.n # 0)
    [] v.k \in {"array", "object"} -> TRUE
    [] OTHER -> FALSE

IsArray(v) == v.k = "array"

\* A completed call: a returned value, or a thrown Error with its message.
Return(v) == [ok |-> TRUE, value |-> v]
Throw(m) == [ok |-> FALSE, message |-> m]

\* The TypeError of reading property p of null or undefined.
TypeErrorReading(v, p) ==
  "Cannot read properties of " \o v.k \o " (reading '" \o p \o "')"

Seqs(S, n) == UNION {[1..m -> S] : m \in 0..n}

Count(seq, x) == Cardinality({i \in DOMAIN seq : seq[i] = x})

-----------------------------------------------------------------------------
(* String constants of the program                                         *)

sActive == <<"a", "c", "t", "i", "v", "e">>
sDeleted == <<"d", "e", "l", "e", "t", "e", "d">>
sOrg == <<"O", "r", "g">>
sRepo == <<"R", "e", "p", "o">>
sUser == <<"U", "s", "e", "r">>

InvalidStructure ==
  "Invalid JSON structure. Expected an object with costCenters property containing an array."

InvalidCenter(index) ==
  "Invalid cost center at index " \o ToString(index)
    \o ". Expected id, name, state, and resources array."

-----------------------------------------------------------------------------
(* JSON.parse and JSON.stringify                                           *)
(* A JSON text is its syntax tree: the same tagged records, where a number *)
(* literal is "finite" or "overflow" (a literal such as 1e999), or the     *)
(* marker of a text that is not JSON at all.                               *)

NotJson == [k |-> "syntaxError"]
Overflow == [k |-> "number", v |-> "overflow"]

SyntaxErrorMessage == "Unexpected token in JSON"

RECURSIVE Revive(_)
Revive(t) ==
  CASE t.k = "number" -> IF t.v = "overflow" THEN Infinity ELSE t
    [] t.k = "array" -> Arr([i \in DOMAIN t.items |-> Revive(t.items[i])])
    [] t.k = "object" ->
         [p \in DOMAIN t |-> IF p = "k" THEN "object" ELSE Revive(t[p])]
    [] OTHER -> t

JSONparse(text) ==
  IF text.k = "syntaxError" THEN Throw(SyntaxErrorMessage)
  ELSE Return(Revive(text))

\* SerializeJSONProperty: a non-finite number is written as null; a property
\* whose value is undefined is left out; an undefined array element is null.
RECURSIVE Serialize(_)
Serialize(v) ==
  CASE v.k = "number" -> IF v.v = "Infinity" THEN Null ELSE v
    [] v.k = "undefined" -> Null
    [] v.k = "array" -> Arr([i \in DOMAIN v.items |-> Serialize(v.items[i])])
    [] v.k = "object" ->
         [p \in {q \in DOMAIN v : q = "k" \/ v[q].k # "undefined"} |->
            IF p = "k" THEN "object" ELSE Serialize(v[p])]
    [] OTHER -> v

JSONstringify(v) == Serialize(v)

-----------------------------------------------------------------------------
(* processJsonData (App.tsx 238-295)                                       *)

\* 239-248: the record list of a recognized shape.  rawData.costCenters is
\* read first, so a null rawData throws the TypeError of that read.
ExtractCostCenters(rawData) ==
  IF Nullish(rawData) THEN Throw(TypeErrorReading(rawData, "costCenters"))
  ELSE IF Truthy(Get(rawData, "costCenters")) /\ IsArray(Get(rawData, "costCenters"))
    THEN Return(Get(rawData, "costCenters").items)
  ELSE IF IsArray(rawData) THEN Return(rawData.items)
  ELSE Throw(InvalidStructure)

\* 251-256: the map callback on one record; index is the 0-based position.
\* A validator that takes state from the closed set of active and deleted.
ValidateCenterOfClosedStates(center, index) ==
  IF Nullish(center) THEN Throw(TypeErrorReading(center, "id"))
  ELSE IF \/ ~Truthy(Get(center, "id"))
          \/ ~Truthy(Get(center, "name"))
          \/ Get(center, "state") \notin {Str(<<"a", "c", "t", "i", "v", "e">>),
                                           Str(<<"d", "e", "l", "e", "t", "e", "d">>)}
          \/ ~IsArray(Get(center, "resources"))
    THEN Throw(InvalidCenter(index))
  ELSE Return(center)

ValidateCenter(center, index) ==
  IF Nullish(center) THEN Throw(TypeErrorReading(center, "id"))
  ELSE IF \/ ~Truthy(Get(center, "id"))
          \/ ~Truthy(Get(center, "name"))
          \/ ~Truthy(Get(center, "state"))
          \/ ~IsArray(Get(center, "resources"))
    THEN Throw(InvalidCenter(index))
  ELSE Return(center)

\* A validator that returns the active records before the other ones.
ValidateCentersActiveFirst(costCenters) ==
  LET bad == {i \in DOMAIN costCenters : ~ValidateCenter(costCenters[i], i - 1).ok}
      IsActive(center) == Get(center, "state") = Str(<<"a", "c", "t", "i", "v", "e">>)
  IN IF bad = {}
       THEN Return(SelectSeq(costCenters, IsActive)
                     \o SelectSeq(costCenters, LAMBDA center : ~IsActive(center)))
     ELSE LET first == CHOOSE i \in bad : \A j \in bad : i <= j
          IN ValidateCenter(costCenters[first], first - 1)

\* 251-256: map stops at the first record whose callback throws.
ValidateCenters(costCenters) ==
  LET bad == {i \in DOMAIN costCenters : ~ValidateCenter(costCenters[i], i - 1).ok}
  IN IF bad = {} THEN Return(costCenters)
     ELSE LET first == CHOOSE i \in bad : \A j \in bad : i <= j
          IN ValidateCenter(costCenters[first], first - 1)

\* A filter that takes every record that is not deleted for an active one.
FilterByStateNotDeleted(centers, state) ==
  SelectSeq(centers, LAMBDA center :
    IF state = sActive THEN Get(center, "state") # Str(sDeleted)
    ELSE Get(center, "state") = Str(state))

\* 259-260: filter(center => center.state === state).
FilterByState(centers, state) ==
  SelectSeq(centers, LAMBDA center : Get(center, "state") = Str(state))

\* A switch with a default case that counts every other type as a User.
RECURSIVE CountSwitchWithDefault(_, _)
CountSwitchWithDefault(resources, type) ==
  IF resources = << >> THEN 0
  ELSE (IF \/ Get(Head(resources), "type") = Str(type)
           \/ /\ type = <<"U", "s", "e", "r">>
              /\ Get(Head(resources), "type")
                   \notin {Str(<<"O", "r", "g">>), Str(<<"R", "e", "p", "o">>)}
          THEN 1 ELSE 0)
         + CountSwitchWithDefault(Tail(resources), type)

\* 268-280: the inner forEach with its switch, for one counter.
RECURSIVE CountSwitch(_, _)
CountSwitch(resources, type) ==
  IF resources = << >> THEN 0
  ELSE (IF Get(Head(resources), "type") = Str(type) THEN 1 ELSE 0)
         + CountSwitch(Tail(resources), type)

\* 267-281: the outer forEach over the active cost centers.
RECURSIVE CountActive(_, _)
CountActive(activeCostCenters, type) ==
  IF activeCostCenters = << >> THEN 0
  ELSE CountSwitch(Get(Head(activeCostCenters), "resources").items, type)
         + CountActive(Tail(activeCostCenters), type)

\* 269: resource.type of a null resource throws.
NullishResources(centers) ==
  {v \in UNION {{Get(centers[i], "resources").items[j] :
                   j \in DOMAIN Get(centers[i], "resources").items} :
                i \in DOMAIN centers} : Nullish(v)}

processJsonData(rawData) ==
  LET extracted == ExtractCostCenters(rawData) IN
  IF ~extracted.ok THEN extracted ELSE
  LET validated == ValidateCenters(extracted.value) IN
  IF ~validated.ok THEN validated ELSE
  LET processedCenters == validated.value
      activeCostCenters == FilterByState(processedCenters, sActive)
      deletedCostCenters == FilterByState(processedCenters, sDeleted)
      nullish == NullishResources(activeCostCenters)
  IN IF nullish # {}
       THEN Throw(TypeErrorReading(CHOOSE v \in nullish : TRUE, "type"))
     ELSE Return([
       costCenters |-> processedCenters,
       activeCostCenters |-> activeCostCenters,
       deletedCostCenters |-> deletedCostCenters,
       summary |-> [
         totalActive |-> Len(activeCostCenters),
         totalDeleted |-> Len(deletedCostCenters),
         totalOrganizations |-> CountActive(activeCostCenters, sOrg),
         totalRepositories |-> CountActive(activeCostCenters, sRepo),
         totalMembers |-> CountActive(activeCostCenters, sUser)]])

-----------------------------------------------------------------------------
(* getResourceCounts (App.tsx 489-494)                                     *)

\* resources.filter(r => r.type === type).length
CountOfType(center, type) ==
  Len(SelectSeq(Get(center, "resources").items,
                LAMBDA r : Get(r, "type") = Str(type)))

\* r.type of a null resource throws.
getResourceCounts(center) ==
  LET nullish == NullishResources(<<center>>) IN
  IF nullish # {} THEN Throw(TypeErrorReading(CHOOSE v \in nullish : TRUE, "type"))
  ELSE Return([orgs |-> CountOfType(center, sOrg),
               repos |-> CountOfType(center, sRepo),
               members |-> CountOfType(center, sUser)])

-----------------------------------------------------------------------------
(* String.prototype.toLowerCase, includes, localeCompare                   *)

Uppercase == <<"A", "B", "C", "D", "E", "F", "G", "H", "I", "J", "K", "L", "M",
               "N", "O", "P", "Q", "R", "S", "T", "U", "V", "W", "X", "Y", "Z">>
Lowercase == <<"a", "b", "c", "d", "e", "f", "g", "h", "i", "j", "k", "l", "m",
               "n", "o", "p", "q", "r", "s", "t", "u", "v", "w", "x", "y", "z">>
Digits == <<"0", "1", "2", "3", "4", "5", "6", "7", "8", "9">>

IndexIn(alphabet, c) ==
  IF \E i \in DOMAIN alphabet : alphabet[i] = c
    THEN CHOOSE i \in DOMAIN alphabet : alphabet[i] = c
  ELSE 0

\* The lower-case letter of each upper-case letter.
LowerOf == [c \in {Uppercase[i] : i \in DOMAIN Uppercase} |-> Lowercase[IndexIn(Uppercase, c)]]

LowerChar(c) == IF c \in DOMAIN LowerOf THEN LowerOf[c] ELSE c

toLowerCase(s) == [i \in DOMAIN s |-> LowerChar(s[i])]

\* s.includes(q): q occurs in s at some position; the empty q at position 0.
includes(s, q) ==
  \E start \in 0..(Len(s) - Len(q)) :
    \A i \in 1..Len(q) : s[start + i] = q[i]

\* The collation of localeCompare on letters and digits: symbols before digits
\* before letters, letters in alphabetical order whatever their case; strings
\* that differ only in case are ordered lower case first.
PrimaryWeight(c) ==
  IF IndexIn(Digits, c) # 0 THEN IndexIn(Digits, c)
  ELSE IF IndexIn(Lowercase, LowerChar(c)) # 0 THEN 10 + IndexIn(Lowercase, LowerChar(c))
  ELSE 0

TertiaryWeight(c) == IF IndexIn(Uppercase, c) # 0 THEN 1 ELSE 0

RECURSIVE CompareWeights(_, _)
CompareWeights(a, b) ==
  IF a = << >> /\ b = << >> THEN 0
  ELSE IF a = << >> THEN -1
  ELSE IF b = << >> THEN 1
  ELSE IF Head(a) # Head(b) THEN Head(a) - Head(b)
  ELSE CompareWeights(Tail(a), Tail(b))

localeCompare(a, b) ==
  LET primary == CompareWeights([i \in DOMAIN a |-> PrimaryWeight(a[i])],
                                [i \in DOMAIN b |-> PrimaryWeight(b[i])])
  IN IF primary # 0 THEN primary
     ELSE CompareWeights([i \in DOMAIN a |-> TertiaryWeight(a[i])],
                         [i \in DOMAIN b |-> TertiaryWeight(b[i])])

-----------------------------------------------------------------------------
(* filteredAndSortedCostCenters (App.tsx 514-561)                          *)

ResourceTypeFilters == {<<"a", "l", "l">>, sOrg, sRepo, sUser}
HasResourcesFilters == {"all", "with-resources", "empty"}
SortOrders == {"name", "total-resources", "orgs", "repos", "users"}

NotAFunction(what) == what \o " is not a function"

\* 523-525: resources.some(resource => resource.name.toLowerCase().includes(..)),
\* left to right: true at the first match, a TypeError at the first resource
\* reached whose name has no toLowerCase.
RECURSIVE SomeResourceNameIncludes(_, _)
SomeResourceNameIncludes(resources, searchLower) ==
  IF resources = << >> THEN Return(FALSE)
  ELSE LET resource == Head(resources) IN
    IF Nullish(resource) THEN Throw(TypeErrorReading(resource, "name"))
    ELSE IF Nullish(Get(resource, "name"))
      THEN Throw(TypeErrorReading(Get(resource, "name"), "toLowerCase"))
    ELSE IF Get(resource, "name").k # "string"
      THEN Throw(NotAFunction("resource.name.toLowerCase"))
    ELSE IF includes(toLowerCase(Get(resource, "name").s), searchLower)
      THEN Return(TRUE)
    ELSE SomeResourceNameIncludes(Tail(resources), searchLower)

\* A search that compares with the query as typed, not lower-cased.
MatchesSearchAsTyped(center, searchQuery) ==
  IF searchQuery = << >> THEN Return(TRUE)
  ELSE IF Get(center, "name").k # "string"
    THEN Throw(NotAFunction("center.name.toLowerCase"))
  ELSE IF includes(toLowerCase(Get(center, "name").s), searchQuery) THEN Return(TRUE)
  ELSE IF Get(center, "id").k # "string"
    THEN Throw(NotAFunction("center.id.toLowerCase"))
  ELSE IF includes(toLowerCase(Get(center, "id").s), searchQuery) THEN Return(TRUE)
  ELSE SomeResourceNameIncludes(Get(center, "resources").items, searchQuery)

\* 519-525: matchesSearch, with the short circuit of ||.  The name and the id
\* are truthy (validated), so they are never null or undefined here.
MatchesSearch(center, searchQuery) ==
  LET searchLower == toLowerCase(searchQuery) IN
  IF searchQuery = << >> THEN Return(TRUE)
  ELSE IF Get(center, "name").k # "string"
    THEN Throw(NotAFunction("center.name.toLowerCase"))
  ELSE IF includes(toLowerCase(Get(center, "name").s), searchLower) THEN Return(TRUE)
  ELSE IF Get(center, "id").k # "string"
    THEN Throw(NotAFunction("center.id.toLowerCase"))
  ELSE IF includes(toLowerCase(Get(center, "id").s), searchLower) THEN Return(TRUE)
  ELSE SomeResourceNameIncludes(Get(center, "resources").items, searchLower)

\* 529: resources.some(resource => resource.type === resourceTypeFilter).
RECURSIVE SomeResourceOfType(_, _)
SomeResourceOfType(resources, type) ==
  IF resources = << >> THEN Return(FALSE)
  ELSE IF Nullish(Head(resources)) THEN Throw(TypeErrorReading(Head(resources), "type"))
  ELSE IF Get(Head(resources), "type") = Str(type) THEN Return(TRUE)
  ELSE SomeResourceOfType(Tail(resources), type)

\* A type filter that looks at the first resource only.
MatchesResourceTypeOfFirst(center, resourceTypeFilter) ==
  IF resourceTypeFilter = <<"a", "l", "l">> THEN Return(TRUE)
  ELSE IF Get(center, "resources").items = << >> THEN Return(FALSE)
  ELSE SomeResourceOfType(<<Head(Get(center, "resources").items)>>, resourceTypeFilter)

\* 528-529
MatchesResourceType(center, resourceTypeFilter) ==
  IF resourceTypeFilter = <<"a", "l", "l">> THEN Return(TRUE)
  ELSE SomeResourceOfType(Get(center, "resources").items, resourceTypeFilter)

\* A has-resources filter whose 'with-resources' case lets the empty list pass.
MatchesHasResourcesOrEmpty(center, hasResourcesFilter) ==
  \/ hasResourcesFilter = "all"
  \/ hasResourcesFilter = "with-resources" /\ Len(Get(center, "resources").items) >= 0
  \/ hasResourcesFilter = "empty" /\ Len(Get(center, "resources").items) = 0

\* 532-534
MatchesHasResources(center, hasResourcesFilter) ==
  \/ hasResourcesFilter = "all"
  \/ hasResourcesFilter = "with-resources" /\ Len(Get(center, "resources").items) > 0
  \/ hasResourcesFilter = "empty" /\ Len(Get(center, "resources").items) = 0

\* 517-537: the filter callback; the three constants are computed one after the
\* other, then ANDed.
FilterCallback(center, searchQuery, resourceTypeFilter, hasResourcesFilter) ==
  LET matchesSearch == MatchesSearch(center, searchQuery)
      matchesResourceType == MatchesResourceType(center, resourceTypeFilter)
      matchesHasResources == MatchesHasResources(center, hasResourcesFilter)
  IN IF ~matchesSearch.ok THEN matchesSearch
     ELSE IF ~matchesResourceType.ok THEN matchesResourceType
     ELSE Return(matchesSearch.value /\ matchesResourceType.value /\ matchesHasResources)

\* A comparator whose counts are compared smallest first.
ComparatorAscending(a, b, sortBy) ==
  LET ca == getResourceCounts(a).value
      cb == getResourceCounts(b).value
  IN CASE sortBy = "name" -> localeCompare(Get(a, "name").s, Get(b, "name").s)
       [] sortBy = "total-resources" ->
            Len(Get(a, "resources").items) - Len(Get(b, "resources").items)
       [] sortBy = "orgs" -> ca.orgs - cb.orgs
       [] sortBy = "repos" -> ca.repos - cb.repos
       [] sortBy = "users" -> ca.members - cb.members
       [] OTHER -> localeCompare(Get(a, "name").s, Get(b, "name").s)

\* 540-558: the comparator.  getResourceCounts is called on both elements
\* before the switch.
Comparator(a, b, sortBy) ==
  LET ca == getResourceCounts(a).value
      cb == getResourceCounts(b).value
  IN CASE sortBy = "name" -> localeCompare(Get(a, "name").s, Get(b, "name").s)
       [] sortBy = "total-resources" ->
            Len(Get(b, "resources").items) - Len(Get(a, "resources").items)
       [] sortBy = "orgs" -> cb.orgs - ca.orgs
       [] sortBy = "repos" -> cb.repos - ca.repos
       [] sortBy = "users" -> cb.members - ca.members
       [] OTHER -> localeCompare(Get(a, "name").s, Get(b, "name").s)

\* A sort that drops an element that compares equal to one already placed.
RECURSIVE StableSortUnique(_, _, _)
StableSortUnique(sorted, rest, sortBy) ==
  IF rest = << >> THEN sorted
  ELSE LET x == Head(rest)
           p == Cardinality({i \in DOMAIN sorted : Comparator(sorted[i], x, sortBy) <= 0})
       IN IF \E i \in DOMAIN sorted : Comparator(sorted[i], x, sortBy) = 0
            THEN StableSortUnique(sorted, Tail(rest), sortBy)
          ELSE StableSortUnique(
                 SubSeq(sorted, 1, p) \o <<x>> \o SubSeq(sorted, p + 1, Len(sorted)),
                 Tail(rest), sortBy)

\* A sort that places an element before the placed elements it compares equal
\* to.
RECURSIVE SortTiesFirst(_, _, _)
SortTiesFirst(sorted, rest, sortBy) ==
  IF rest = << >> THEN sorted
  ELSE LET x == Head(rest)
           p == Cardinality({i \in DOMAIN sorted : Comparator(sorted[i], x, sortBy) < 0})
       IN SortTiesFirst(SubSeq(sorted, 1, p) \o <<x>> \o SubSeq(sorted, p + 1, Len(sorted)),
                        Tail(rest), sortBy)

\* Array.prototype.sort is stable: each element is placed after the elements
\* already placed that do not compare greater than it.
RECURSIVE StableSort(_, _, _)
StableSort(sorted, rest, sortBy) ==
  IF rest = << >> THEN sorted
  ELSE LET x == Head(rest)
           p == Cardinality({i \in DOMAIN sorted : Comparator(sorted[i], x, sortBy) <= 0})
       IN StableSort(SubSeq(sorted, 1, p) \o <<x>> \o SubSeq(sorted, p + 1, Len(sorted)),
                     Tail(rest), sortBy)

\* 517-558: the error thrown while filtering and sorting, if any: the first
\* throw of the filter callback, else the throw of the comparator, which runs
\* only on a list of two or more elements, and then on every element.  (With a
\* name that is not a string, whether localeCompare throws depends on which
\* element the engine makes the receiver; the data sets of this model keep
\* every name a string.)
FilterAndSortError(active, searchQuery, resourceTypeFilter, hasResourcesFilter, sortBy) ==
  LET Callback(center) ==
        FilterCallback(center, searchQuery, resourceTypeFilter, hasResourcesFilter)
      thrown == {i \in DOMAIN active : ~Callback(active[i]).ok}
      filtered == SelectSeq(active, LAMBDA center : Callback(center).value)
      nullish == NullishResources(filtered)
  IN IF thrown # {}
       THEN Callback(active[CHOOSE i \in thrown : \A j \in thrown : i <= j])
     ELSE IF Len(filtered) >= 2 /\ nullish # {}
       THEN Throw(TypeErrorReading(CHOOSE v \in nullish : TRUE, "type"))
     ELSE IF Len(filtered) >= 2 /\ sortBy = "name"
               /\ \E i \in DOMAIN filtered : Get(filtered[i], "name").k # "string"
       THEN Throw(NotAFunction("a.name.localeCompare"))
     ELSE Return(TRUE)

\* 514-561: the value of the memo for a data set and the four parameters: the
\* filtered and sorted list, or the error thrown while computing it.
FilterAndSort(data, searchQuery, resourceTypeFilter, hasResourcesFilter, sortBy) ==
  IF data = Null THEN Return(<< >>) ELSE
  LET active == data.activeCostCenters
      thrown == FilterAndSortError(active, searchQuery, resourceTypeFilter,
                                   hasResourcesFilter, sortBy)
      filtered ==
        SelectSeq(active, LAMBDA center :
          FilterCallback(center, searchQuery, resourceTypeFilter,
                         hasResourcesFilter).value)
  IN IF ~thrown.ok THEN thrown
     ELSE Return(StableSort(<< >>, filtered, sortBy))

\* The arrays a data set holds, by the name that refers to each.
ArraysOf(data) ==
  [ref \in {"costCenters", "activeCostCenters", "deletedCostCenters"} |-> data[ref]]

\* A filter that removes the elements in place and returns its receiver.
ArrayFilterInPlace(arrays, receiver, kept) ==
  [arrays |-> [ref \in DOMAIN arrays |->
                 IF ref = receiver
                   THEN SelectSeq(arrays[receiver], LAMBDA center : center \in kept)
                 ELSE arrays[ref]],
   ref |-> receiver]

\* 517: Array.prototype.filter returns a new array, here under the name
\* "filtered", and leaves its receiver as it is; kept is the set of elements
\* for which the callback returned true.
ArrayFilter(arrays, receiver, kept) ==
  [arrays |-> [ref \in DOMAIN arrays \cup {"filtered"} |->
                 IF ref = "filtered"
                   THEN SelectSeq(arrays[receiver], LAMBDA center : center \in kept)
                 ELSE arrays[ref]],
   ref |-> "filtered"]

\* 540: Array.prototype.sort sorts its receiver in place.
ArraySort(arrays, receiver, sortBy) ==
  [ref \in DOMAIN arrays |->
     IF ref = receiver THEN StableSort(<< >>, arrays[receiver], sortBy)
     ELSE arrays[ref]]

\* 514-561: the data set after the memo has been computed for it with the four
\* parameters.  A callback that throws ends the run before the new array is
\* sorted; the elements it would have kept are then of no account.
AfterRender(data, searchQuery, resourceTypeFilter, hasResourcesFilter, sortBy) ==
  IF data = Null THEN data
  ELSE
    LET Callback(center) ==
          FilterCallback(center, searchQuery, resourceTypeFilter, hasResourcesFilter)
        kept == {center \in {data.activeCostCenters[i] :
                               i \in DOMAIN data.activeCostCenters} :
                   Callback(center).ok /\ Callback(center).value}
        filtered == ArrayFilter(ArraysOf(data), "activeCostCenters", kept)
        arrays == ArraySort(filtered.arrays, filtered.ref, sortBy)
    IN [data EXCEPT !.costCenters = arrays["costCenters"],
                    !.activeCostCenters = arrays["activeCostCenters"],
                    !.deletedCostCenters = arrays["deletedCostCenters"]]

-----------------------------------------------------------------------------
(* exportReport (App.tsx 572-635)                                          *)

\* The time stamp of new Date().toISOString().
sGeneratedAt == <<"2", "0", "2", "5">>

\* 578: jsonData.summary, as the object that is serialized.
SummaryObject(summary) ==
  [k |-> "object",
   totalActive |-> Num(summary.totalActive),
   totalDeleted |-> Num(summary.totalDeleted),
   totalOrganizations |-> Num(summary.totalOrganizations),
   totalRepositories |-> Num(summary.totalRepositories),
   totalMembers |-> Num(summary.totalMembers)]

\* 579-582: { ...center, resourceCounts: getResourceCounts(center) }
WithResourceCounts(center) ==
  LET counts == getResourceCounts(center).value IN
  [p \in DOMAIN center \cup {"resourceCounts"} |->
     IF p = "resourceCounts"
       THEN [k |-> "object", orgs |-> Num(counts.orgs), repos |-> Num(counts.repos),
             members |-> Num(counts.members)]
     ELSE center[p]]

\* A report of the active cost centers only.
JsonReportOfActive(data) ==
  JSONstringify(
    [k |-> "object",
     generatedAt |-> Str(sGeneratedAt),
     summary |-> SummaryObject(data.summary),
     costCenters |->
       Arr([i \in DOMAIN data.activeCostCenters |->
              WithResourceCounts(data.activeCostCenters[i])])])

\* 576-585: the text of the JSON report.
JsonReport(data) ==
  JSONstringify(
    [k |-> "object",
     generatedAt |-> Str(sGeneratedAt),
     summary |-> SummaryObject(data.summary),
     costCenters |->
       Arr([i \in DOMAIN data.costCenters |-> WithResourceCounts(data.costCenters[i])])])

\* Number.prototype.toString of a natural number.
RECURSIVE NumberToString(_)
NumberToString(n) ==
  IF n < 10 THEN <<Digits[n + 1]>>
  ELSE NumberToString(n \div 10) \o <<Digits[(n % 10) + 1]>>

\* ToString of a value, as a template literal applies it.
ToStringJS(v) ==
  CASE v.k = "string" -> v.s
    [] v.k = "number" ->
         IF v.v = "Infinity" THEN <<"I", "n", "f", "i", "n", "i", "t", "y">>
         ELSE NumberToString(v.n)
    [] v.k = "null" -> <<"n", "u", "l", "l">>
    [] v.k = "undefined" -> <<"u", "n", "d", "e", "f", "i", "n", "e", "d">>
    [] OTHER -> <<"[", "o", "b", "j", "e", "c", "t", " ", "O", "b", "j", "e", "c", "t", "]">>

\* Array.prototype.join: null and undefined elements are written as nothing.
RECURSIVE Join(_, _)
Join(cells, separator) ==
  IF cells = << >> THEN << >>
  ELSE LET first == IF Nullish(Head(cells)) THEN << >> ELSE ToStringJS(Head(cells))
       IN IF Len(cells) = 1 THEN first
          ELSE first \o separator \o Join(Tail(cells), separator)

\* 598-606
CsvHeaders ==
  <<Str(<<"C", "o", "s", "t", " ", "C", "e", "n", "t", "e", "r", " ", "N", "a", "m", "e">>),
    Str(<<"C", "o", "s", "t", " ", "C", "e", "n", "t", "e", "r", " ", "I", "D">>),
    Str(<<"S", "t", "a", "t", "e">>),
    Str(<<"T", "o", "t", "a", "l", " ", "R", "e", "s", "o", "u", "r", "c", "e", "s">>),
    Str(<<"O", "r", "g", "a", "n", "i", "z", "a", "t", "i", "o", "n", "s">>),
    Str(<<"R", "e", "p", "o", "s", "i", "t", "o", "r", "i", "e", "s">>),
    Str(<<"M", "e", "m", "b", "e", "r", "s">>)>>

\* 608-620: the cells of one record's row.
CsvRow(center) ==
  LET counts == getResourceCounts(center).value IN
  <<Str(<<"\"">> \o ToStringJS(Get(center, "name")) \o <<"\"">>),
    Get(center, "id"),
    Get(center, "state"),
    Num(Len(Get(center, "resources").items)),
    Num(counts.orgs),
    Num(counts.repos),
    Num(counts.members)>>

\* 622: the lines of the CSV text, in the order in which "\n" joins them.
CsvReport(data) ==
  <<Join(CsvHeaders, <<",">>)>>
    \o [i \in DOMAIN data.costCenters |-> Join(CsvRow(data.costCenters[i]), <<",">>)]

\* 572-635: the file handed to the browser, or the error of getResourceCounts.
ExportedFile(data, format) ==
  IF NullishResources(data.costCenters) # {}
    THEN Throw(TypeErrorReading(CHOOSE v \in NullishResources(data.costCenters) : TRUE,
                                "type"))
  ELSE IF format = "json"
    THEN Return([k |-> "file", type |-> "application/json", json |-> JsonReport(data)])
  ELSE Return([k |-> "file", type |-> "text/csv", lines |-> CsvReport(data)])

-----------------------------------------------------------------------------
(* Documents                                                               *)

Resource(type, name) == [k |-> "object", type |-> Str(type), name |-> Str(name)]

Center(id, name, state, resources) ==
  [k |-> "object", id |-> Str(id), name |-> Str(name), state |-> Str(state),
   resources |-> Arr(resources)]

\* 302-470: the literal of loadExampleData.
mockData ==
  [k |-> "object", costCenters |-> Arr(<<
    Center(
      <<"7", "8", "b", "1", "8", "9", "8", "8", "-", "0", "d", "f", "4", "-",
          "4", "1", "1", "8", "-", "b", "d", "a", "8", "-", "8", "1", "6",
          "7", "1", "3", "2", "a", "2", "2", "5", "6">>,
      <<"s", "t", "i", "l", "l", "-", "F", "i", "r", "s", "t">>,
      <<"a", "c", "t", "i", "v", "e">>,
      <<
         Resource(<<"R", "e", "p", "o">>, <<"b", "r", "y", "a", "n", "t",
          "-", "t", "e", "s", "t", "-", "o", "r", "g", "/", "b", "l", "o",
          "b", "f", "u", "s", "e", "-", "t", "e", "s", "t">>)
      >>),
    Center(
      <<"d", "8", "a", "3", "b", "0", "8", "b", "-", "0", "2", "f", "d", "-",
          "4", "c", "8", "7", "-", "9", "1", "f", "d", "-", "d", "a", "d",
          "1", "8", "e", "7", "1", "b", "7", "a", "7">>,
      <<"e", "l", "-", "s", "e", "g", "u", "n", "d", "o">>,
      <<"a", "c", "t", "i", "v", "e">>,
      <<
         Resource(<<"U", "s", "e", "r">>, <<"g", "r", "e", "g", "o", "r",
          "i", "o", "u", "s", "m", "o", "n", "k">>),
         Resource(<<"O", "r", "g">>, <<"g", "m", "o", "n", "d", "e", "l",
          "l", "o", "-", "t", "e", "m", "p", "-", "t", "e", "s", "t">>)
      >>),
    Center(
      <<"c", "5", "9", "f", "5", "d", "0", "6", "-", "6", "e", "c", "c", "-",
          "4", "4", "a", "9", "-", "b", "b", "e", "f", "-", "a", "4", "0",
          "e", "3", "9", "8", "b", "4", "3", "9", "2">>,
      <<"1", "2", "3", "1", "2", "3", "1", "2", "3">>,
      <<"d", "e", "l", "e", "t", "e", "d">>,
      << >>),
    Center(
      <<"3", "b", "0", "8", "0", "b", "d", "5", "-", "f", "2", "5", "3", "-",
          "4", "6", "7", "1", "-", "b", "7", "7", "d", "-", "3", "5", "5",
          "8", "8", "0", "5", "b", "4", "f", "c", "a">>,
      <<"S", "e", "r", "v", "i", "c", "e", "I", "D", "_", "1", "2", "3", "4",
          "5", "6", "7">>,
      <<"a", "c", "t", "i", "v", "e">>,
      << >>),
    Center(
      <<"5", "0", "d", "1", "a", "c", "7", "5", "-", "2", "0", "a", "c", "-",
          "4", "3", "6", "d", "-", "8", "e", "4", "3", "-", "8", "a", "0",
          "7", "e", "8", "c", "c", "7", "5", "7", "7">>,
      <<"m", "p", "-", "t", "e", "s", "t">>,
      <<"a", "c", "t", "i", "v", "e">>,
      <<
         Resource(<<"R", "e", "p", "o">>, <<"1", "0", "k", "-", "r", "e",
          "p", "o", "s", "/", "t", "e", "s", "t", "-", "p", "u", "b", "l",
          "i", "c">>)
      >>),
    Center(
      <<"8", "4", "b", "9", "8", "d", "c", "5", "-", "0", "4", "c", "5", "-",
          "4", "4", "0", "0", "-", "9", "e", "2", "1", "-", "4", "b", "7",
          "8", "5", "b", "1", "5", "7", "5", "7", "e">>,
      <<"t", "e", "s", "t", "-", "s", "u", "b", "s", "e", "t", "-", "k",
          "m">>,
      <<"a", "c", "t", "i", "v", "e">>,
      <<
         Resource(<<"O", "r", "g">>, <<"A", "v", "o", "c", "a", "d", "o",
          "-", "E", "x", "t", "r", "a", "-", "C", "h", "a", "r", "g", "e">>)
      >>),
    Center(
      <<"a", "1", "b", "2", "c", "3", "d", "4", "-", "e", "5", "f", "6", "-",
          "7", "8", "9", "0", "-", "1", "2", "3", "4", "-", "5", "6", "7",
          "8", "9", "0", "a", "b", "c", "d", "e", "f">>,
      <<"M", "a", "r", "k", "e", "t", "i", "n", "g", " ", "D", "i", "v", "i",
          "s", "i", "o", "n">>,
      <<"a", "c", "t", "i", "v", "e">>,
      <<
         Resource(<<"O", "r", "g">>, <<"m", "a", "r", "k", "e", "t", "i",
          "n", "g", "-", "t", "e", "a", "m">>),
         Resource(<<"R", "e", "p", "o">>, <<"m", "a", "r", "k", "e", "t",
          "i", "n", "g", "-", "t", "e", "a", "m", "/", "w", "e", "b", "s",
          "i", "t", "e">>),
         Resource(<<"R", "e", "p", "o">>, <<"m", "a", "r", "k", "e", "t",
          "i", "n", "g", "-", "t", "e", "a", "m", "/", "c", "a", "m", "p",
          "a", "i", "g", "n", "s">>),
         Resource(<<"U", "s", "e", "r">>, <<"s", "a", "r", "a", "h", ".",
          "m", "a", "r", "k", "e", "t", "i", "n", "g">>),
         Resource(<<"U", "s", "e", "r">>, <<"j", "o", "h", "n", ".", "d",
          "e", "s", "i", "g", "n", "e", "r">>),
         Resource(<<"U", "s", "e", "r">>, <<"m", "i", "k", "e", ".", "c",
          "o", "n", "t", "e", "n", "t">>)
      >>),
    Center(
      <<"f", "9", "e", "8", "d", "7", "c", "6", "-", "b", "5", "a", "4", "-",
          "9", "3", "8", "4", "-", "7", "2", "6", "1", "-", "5", "0", "4",
          "9", "3", "8", "2", "7", "1", "6", "5", "0">>,
      <<"E", "n", "g", "i", "n", "e", "e", "r", "i", "n", "g", " ", "H", "u",
          "b">>,
      <<"a", "c", "t", "i", "v", "e">>,
      <<
         Resource(<<"O", "r", "g">>, <<"e", "n", "g", "i", "n", "e", "e",
          "r", "i", "n", "g", "-", "c", "o", "r", "e">>),
         Resource(<<"O", "r", "g">>, <<"e", "n", "g", "i", "n", "e", "e",
          "r", "i", "n", "g", "-", "p", "l", "a", "t", "f", "o", "r", "m">>),
         Resource(<<"R", "e", "p", "o">>, <<"e", "n", "g", "i", "n", "e",
          "e", "r", "i", "n", "g", "-", "c", "o", "r", "e", "/", "a", "p",
          "i", "-", "g", "a", "t", "e", "w", "a", "y">>),
         Resource(<<"R", "e", "p", "o">>, <<"e", "n", "g", "i", "n", "e",
          "e", "r", "i", "n", "g", "-", "c", "o", "r", "e", "/", "u", "s",
          "e", "r", "-", "s", "e", "r", "v", "i", "c", "e">>),
         Resource(<<"R", "e", "p", "o">>, <<"e", "n", "g", "i", "n", "e",
          "e", "r", "i", "n", "g", "-", "p", "l", "a", "t", "f", "o", "r",
          "m", "/", "d", "e", "p", "l", "o", "y", "m", "e", "n", "t", "-",
          "t", "o", "o", "l", "s">>),
         Resource(<<"U", "s", "e", "r">>, <<"a", "l", "i", "c", "e", ".",
          "a", "r", "c", "h", "i", "t", "e", "c", "t">>),
         Resource(<<"U", "s", "e", "r">>, <<"b", "o", "b", ".", "b", "a",
          "c", "k", "e", "n", "d">>),
         Resource(<<"U", "s", "e", "r">>, <<"c", "h", "a", "r", "l", "i",
          "e", ".", "d", "e", "v", "o", "p", "s">>),
         Resource(<<"U", "s", "e", "r">>, <<"d", "i", "a", "n", "a", ".",
          "f", "r", "o", "n", "t", "e", "n", "d">>)
      >>),
    Center(
      <<"5", "a", "4", "b", "3", "c", "2", "d", "-", "1", "e", "0", "f", "-",
          "9", "8", "7", "6", "-", "5", "4", "3", "2", "-", "1", "0", "9",
          "8", "7", "6", "5", "f", "e", "d", "c", "b">>,
      <<"R", "e", "s", "e", "a", "r", "c", "h", " ", "L", "a", "b">>,
      <<"a", "c", "t", "i", "v", "e">>,
      <<
         Resource(<<"R", "e", "p", "o">>, <<"r", "e", "s", "e", "a", "r",
          "c", "h", "-", "l", "a", "b", "/", "m", "l", "-", "e", "x", "p",
          "e", "r", "i", "m", "e", "n", "t", "s">>),
         Resource(<<"R", "e", "p", "o">>, <<"r", "e", "s", "e", "a", "r",
          "c", "h", "-", "l", "a", "b", "/", "d", "a", "t", "a", "-", "a",
          "n", "a", "l", "y", "s", "i", "s">>),
         Resource(<<"U", "s", "e", "r">>, <<"d", "r", ".", "r", "e", "s",
          "e", "a", "r", "c", "h", "e", "r">>)
      >>),
    Center(
      <<"9", "z", "8", "y", "7", "x", "6", "w", "-", "5", "v", "4", "u", "-",
          "3", "t", "2", "s", "-", "1", "r", "0", "q", "-", "9", "p", "8",
          "o", "7", "n", "6", "m", "5", "l", "4", "k">>,
      <<"L", "e", "g", "a", "c", "y", " ", "P", "r", "o", "j", "e", "c", "t",
          " ", "A", "l", "p", "h", "a">>,
      <<"d", "e", "l", "e", "t", "e", "d">>,
      << >>),
    Center(
      <<"1", "a", "2", "b", "3", "c", "4", "d", "-", "5", "e", "6", "f", "-",
          "7", "g", "8", "h", "-", "9", "i", "0", "j", "-", "1", "k", "2",
          "l", "3", "m", "4", "n", "5", "o", "6", "p">>,
      <<"L", "e", "g", "a", "c", "y", " ", "P", "r", "o", "j", "e", "c", "t",
          " ", "B", "e", "t", "a">>,
      <<"d", "e", "l", "e", "t", "e", "d">>,
      << >>) >>)]

-----------------------------------------------------------------------------
(* The state of the App component (App.tsx 47-62)                          *)

VARIABLES
  jsonData,            \* useState<ParsedData | null>: Null or the ParsedData
  error,               \* useState<string>
  isLoading,           \* useState(false)
  isDragOver,          \* useState(false)
  apiConfig,           \* useKV 'github-api-config': Null or {token, enterprise}
  tempToken,           \* useState('')
  tempEnterprise,      \* useState('')
  searchQuery,         \* useState('')
  resourceTypeFilter,  \* useState('all')
  hasResourcesFilter,  \* useState('all')
  sortBy,              \* useState('name')
  expandedCenters,     \* useState(new Set())
  pending,             \* the awaits not yet resumed, in the order they began
  download,            \* the file of the last exportReport and the data set it
                       \* was written from, Null before it
  rawData,             \* the argument of the last processJsonData call
  input,               \* the content of the file the user has at hand
  lastLoad             \* the last load operation that ended, how it ended, and
                       \* what its request was answered with (Null: no request)

vars == <<jsonData, error, isLoading, isDragOver, apiConfig, tempToken,
          tempEnterprise, searchQuery, resourceTypeFilter, hasResourcesFilter,
          sortBy, expandedCenters, pending, download, rawData, input, lastLoad>>

apiVars == <<apiConfig, tempToken, tempEnterprise>>
viewVars == <<searchQuery, resourceTypeFilter, hasResourcesFilter, sortBy, expandedCenters>>

sAll == <<"a", "l", "l">>

\* The state after the first render.
Mounted ==
  /\ jsonData = Null
  /\ error = ""
  /\ isLoading = FALSE
  /\ isDragOver = FALSE
  /\ apiConfig = Null
  /\ tempToken = << >>
  /\ tempEnterprise = << >>
  /\ searchQuery = << >>
  /\ resourceTypeFilter = sAll
  /\ hasResourcesFilter = "all"
  /\ sortBy = "name"
  /\ expandedCenters = {}
  /\ pending = << >>
  /\ download = Null
  /\ rawData = Undefined
  /\ lastLoad = [op |-> "none", ok |-> TRUE, response |-> Null]

\* 514-561: the memo's value in the current state.
filteredAndSortedCostCenters ==
  FilterAndSort(jsonData, searchQuery, resourceTypeFilter, hasResourcesFilter, sortBy)

Remove(seq, i) == SubSeq(seq, 1, i - 1) \o SubSeq(seq, i + 1, Len(seq))

-----------------------------------------------------------------------------
(* Loading from a file (App.tsx 181-236)                                   *)

\* 188-193: processFile up to `await file.text()`.
processFile ==
  /\ Len(pending) < MaxPending
  /\ isLoading' = TRUE
  /\ error' = ""
  /\ pending' = Append(pending, "file")
  /\ UNCHANGED <<jsonData, apiVars, viewVars, download, rawData, input, lastLoad>>

\* 181-186: the file input is rendered while no data is held (648) and is
\* disabled while isLoading (792).
handleFileUpload ==
  /\ jsonData = Null
  /\ ~isLoading
  /\ processFile
  /\ UNCHANGED isDragOver

\* 221-236: the drop zone is rendered while no data is held (648); it has no
\* disabled state.  hasJson: the dropped files include a JSON file.
handleDrop(hasJson) ==
  /\ jsonData = Null
  /\ isDragOver' = FALSE
  /\ IF hasJson THEN processFile
     ELSE /\ error' = "Please drop a JSON file"
          /\ UNCHANGED <<jsonData, isLoading, apiVars, viewVars, pending, download,
                         rawData, input, lastLoad>>

\* A handler that drops the result of a load when a data set is held already.
SettleUnlessHeld(op, attempt, response) ==
  /\ jsonData' = IF attempt.ok /\ jsonData = Null
                   THEN AfterRender(attempt.value, searchQuery, resourceTypeFilter,
                                    hasResourcesFilter, sortBy)
                 ELSE jsonData
  /\ error' = IF attempt.ok THEN error ELSE attempt.message
  /\ isLoading' = FALSE
  /\ lastLoad' = [op |-> op, ok |-> attempt.ok, response |-> response]

\* The try / catch / finally of an asynchronous load (192-206, 83-105,
\* 148-170), run when its await resumes: attempt is the outcome of the try
\* block.  A success leaves error as it is; the render that follows it
\* computes the memo for the new data set.
Settle(op, attempt, response) ==
  /\ jsonData' = IF attempt.ok
                   THEN AfterRender(attempt.value, searchQuery, resourceTypeFilter,
                                    hasResourcesFilter, sortBy)
                 ELSE jsonData
  /\ error' = IF attempt.ok THEN error ELSE attempt.message
  /\ isLoading' = FALSE
  /\ lastLoad' = [op |-> op, ok |-> attempt.ok, response |-> response]

\* 193-206: processFile from the resolution of file.text() on; text is the
\* content of the file.
processFileResume(i, text) ==
  /\ i \in DOMAIN pending
  /\ pending[i] = "file"
  /\ pending' = Remove(pending, i)
  /\ LET parsed == JSONparse(text)
     IN /\ Settle("file", IF parsed.ok THEN processJsonData(parsed.value) ELSE parsed,
                  Null)
        /\ rawData' = IF parsed.ok THEN parsed.value ELSE rawData
  /\ UNCHANGED <<isDragOver, apiVars, viewVars, download, input>>

-----------------------------------------------------------------------------
(* Loading from the API (App.tsx 64-179)                                   *)

\* A trim that keeps the white space.
TrimNothing(s) == s

\* A trim of the leading spaces alone.
TrimStart(s) ==
  LET kept == {i \in DOMAIN s : s[i] # " "} IN
  IF kept = {} THEN << >>
  ELSE SubSeq(s, CHOOSE i \in kept : \A j \in kept : i <= j, Len(s))

\* String.prototype.trim, over an alphabet whose only white space is " ".
Trim(s) ==
  LET kept == {i \in DOMAIN s : s[i] # " "} IN
  IF kept = {} THEN << >>
  ELSE SubSeq(s, CHOOSE i \in kept : \A j \in kept : i <= j,
                 CHOOSE i \in kept : \A j \in kept : i >= j)

ApiConfig(token, enterprise) ==
  [k |-> "object", token |-> Str(token), enterprise |-> Str(enterprise)]

\* 64-81: fetchFromAPI up to `await fetch(...)`.  The button is rendered while
\* no data is held and a configuration is stored (648, 691), and is disabled
\* while isLoading (750).
fetchFromAPI ==
  /\ jsonData = Null
  /\ apiConfig # Null
  /\ ~isLoading
  /\ IF ~Truthy(Get(apiConfig, "token")) \/ ~Truthy(Get(apiConfig, "enterprise"))
       THEN /\ error' = "Please configure your GitHub API token and enterprise slug first"
            /\ UNCHANGED <<isLoading, pending>>
     ELSE /\ Len(pending) < MaxPending
          /\ isLoading' = TRUE
          /\ error' = ""
          /\ pending' = Append(pending, "fetch")
  /\ UNCHANGED <<jsonData, isDragOver, apiVars, viewVars, download, rawData, input,
                 lastLoad>>

\* 108-146: saveAPIConfigAndFetch up to `await fetch(...)`.  The button is
\* rendered while no data is held and no configuration is stored, and is
\* disabled while isLoading (733).
saveAPIConfigAndFetch ==
  /\ jsonData = Null
  /\ apiConfig = Null
  /\ ~isLoading
  /\ IF Trim(tempToken) = << >>
       THEN /\ error' = "GitHub Personal Access Token is required"
            /\ UNCHANGED <<isLoading, apiVars, pending>>
     ELSE IF Trim(tempEnterprise) = << >>
       THEN /\ error' = "Enterprise slug is required"
            /\ UNCHANGED <<isLoading, apiVars, pending>>
     ELSE /\ Len(pending) < MaxPending
          /\ error' = ""
          /\ isLoading' = TRUE
          /\ apiConfig' = ApiConfig(Trim(tempToken), Trim(tempEnterprise))
          /\ tempToken' = << >>
          /\ tempEnterprise' = << >>
          /\ pending' = Append(pending, "save")
  /\ UNCHANGED <<jsonData, isDragOver, viewVars, download, rawData, input, lastLoad>>

NetworkError == [k |-> "networkError"]
Response(status, body) == [k |-> "response", status |-> status, body |-> body]

StatusMessage(status) ==
  CASE status = 401 -> "Authentication failed. Please check your GitHub token."
    [] status = 403 ->
         "Access denied. You may not have permission to access this enterprise's cost centers."
    [] status = 404 -> "Enterprise not found. Please check your enterprise slug."
    [] OTHER -> "API request failed with status " \o ToString(status)

\* A test that takes every status below 500 for a success.
ResponseOkBelow500(response) == response.status \in 200..499

\* response.ok
ResponseOk(response) == response.status \in 200..299

\* A handler that sends the request again when fetch rejects.
RequestsAfterWithRetry(op, outcome) ==
  IF outcome.k = "networkError" THEN <<op>> ELSE << >>

\* 83-105 and 148-170: the requests sent once fetch has settled.  Neither the
\* try block after the await nor the catch and finally blocks call fetch.
RequestsAfter(op, outcome) == << >>

\* 74-105 and 139-170, from the settling of fetch on: the rejection of fetch,
\* the throw on a response that is not ok, response.json() and processJsonData.
ApiResume(i, op, outcome) ==
  /\ i \in DOMAIN pending
  /\ pending[i] = op
  /\ pending' = Remove(pending, i) \o RequestsAfter(op, outcome)
  /\ LET parsed == IF outcome.k = "networkError" THEN Throw("Failed to fetch")
                   ELSE IF ~ResponseOk(outcome) THEN Throw(StatusMessage(outcome.status))
                   ELSE JSONparse(outcome.body)
     IN /\ Settle(op, IF parsed.ok THEN processJsonData(parsed.value) ELSE parsed,
                  outcome)
        /\ rawData' = IF parsed.ok THEN parsed.value ELSE rawData
  /\ UNCHANGED <<isDragOver, apiVars, viewVars, download, input>>

\* 83-105
fetchFromAPIResume(i, outcome) == ApiResume(i, "fetch", outcome)

\* 148-170
saveAPIConfigAndFetchResume(i, outcome) == ApiResume(i, "save", outcome)

\* 173-179: rendered while no data is held and a configuration is stored.
clearAPIConfig ==
  /\ jsonData = Null
  /\ apiConfig # Null
  /\ apiConfig' = Null
  /\ tempToken' = << >>
  /\ tempEnterprise' = << >>
  /\ error' = ""
  /\ UNCHANGED <<jsonData, isLoading, isDragOver, viewVars, pending, download, rawData,
                 input, lastLoad>>

\* 710: the token input, rendered while no data and no configuration is held.
setTempToken(value) ==
  /\ jsonData = Null
  /\ apiConfig = Null
  /\ tempToken' = value
  /\ UNCHANGED <<jsonData, error, isLoading, isDragOver, apiConfig, tempEnterprise,
                 viewVars, pending, download, rawData, input, lastLoad>>

\* 725
setTempEnterprise(value) ==
  /\ jsonData = Null
  /\ apiConfig = Null
  /\ tempEnterprise' = value
  /\ UNCHANGED <<jsonData, error, isLoading, isDragOver, apiConfig, tempToken,
                 viewVars, pending, download, rawData, input, lastLoad>>

-----------------------------------------------------------------------------
(* The example data and "Load New Data" (App.tsx 297-483, 816-827)          *)

\* 473: processJsonData(mockData), the same at every call.
exampleAttempt == processJsonData(mockData)

\* 297-483: synchronous; the button is rendered while no data is held and is
\* disabled while isLoading (670).
loadExampleData ==
  /\ jsonData = Null
  /\ ~isLoading
  /\ LET attempt == exampleAttempt
     IN /\ jsonData' = IF attempt.ok
                        THEN AfterRender(attempt.value, searchQuery, resourceTypeFilter,
                                         hasResourcesFilter, sortBy)
                      ELSE jsonData
        /\ error' = IF attempt.ok THEN "" ELSE attempt.message
        /\ lastLoad' = [op |-> "example", ok |-> attempt.ok, response |-> Null]
  /\ isLoading' = FALSE
  /\ rawData' = mockData
  /\ UNCHANGED <<isDragOver, apiVars, viewVars, pending, download, input>>

\* 832-837: the banner of the loaded data names the GitHub API and the
\* enterprise whenever a configuration is stored.
LoadedFromApiLabelShown == jsonData # Null /\ Truthy(apiConfig)

\* A handler that puts the view controls back as it drops the data set.
loadNewDataClearingFilters ==
  /\ jsonData # Null
  /\ FilterAndSortError(jsonData.activeCostCenters, searchQuery, resourceTypeFilter,
                        hasResourcesFilter, sortBy).ok
  /\ jsonData' = Null
  /\ error' = ""
  /\ searchQuery' = << >>
  /\ resourceTypeFilter' = <<"a", "l", "l">>
  /\ hasResourcesFilter' = "all"
  /\ sortBy' = "name"
  /\ expandedCenters' = {}
  /\ UNCHANGED <<isLoading, isDragOver, apiVars, pending, download, rawData, input,
                 lastLoad>>

\* 819-822: the button is rendered with the data, so only while the memo of
\* 514-561 did not throw during render.
loadNewData ==
  /\ jsonData # Null
  /\ FilterAndSortError(jsonData.activeCostCenters, searchQuery, resourceTypeFilter,
                        hasResourcesFilter, sortBy).ok
  /\ jsonData' = Null
  /\ error' = ""
  /\ UNCHANGED <<isLoading, isDragOver, apiVars, viewVars, pending, download, rawData,
                 input, lastLoad>>

-----------------------------------------------------------------------------
(* The view controls and the export (App.tsx 563-635, 960-1004)            *)
(* All of them are rendered only while data is held (844), and only while  *)
(* the component renders at all: an error thrown by the memo during render *)
(* unmounts it.                                                            *)

\* What is typed into the search box.
Queries == {<< >>, <<"O", "1">>, <<"A">>, <<"B">>}

Renders ==
  \/ jsonData = Null
  \/ FilterAndSortError(jsonData.activeCostCenters, searchQuery, resourceTypeFilter,
                        hasResourcesFilter, sortBy).ok

\* 960
setSearchQuery ==
  /\ jsonData # Null
  /\ Renders
  /\ \E value \in Queries : searchQuery' = value
  /\ UNCHANGED <<error, isLoading, isDragOver, apiVars, resourceTypeFilter,
                 hasResourcesFilter, sortBy, expandedCenters, pending, download,
                 rawData, input, lastLoad>>
  /\ jsonData' = AfterRender(jsonData, searchQuery', resourceTypeFilter',
                            hasResourcesFilter', sortBy')

\* 978
setResourceTypeFilter ==
  /\ jsonData # Null
  /\ Renders
  /\ \E value \in ResourceTypeFilters : resourceTypeFilter' = value
  /\ UNCHANGED <<error, isLoading, isDragOver, apiVars, searchQuery,
                 hasResourcesFilter, sortBy, expandedCenters, pending, download,
                 rawData, input, lastLoad>>
  /\ jsonData' = AfterRender(jsonData, searchQuery', resourceTypeFilter',
                            hasResourcesFilter', sortBy')

\* 992
setHasResourcesFilter ==
  /\ jsonData # Null
  /\ Renders
  /\ \E value \in HasResourcesFilters : hasResourcesFilter' = value
  /\ UNCHANGED <<error, isLoading, isDragOver, apiVars, searchQuery,
                 resourceTypeFilter, sortBy, expandedCenters, pending, download,
                 rawData, input, lastLoad>>
  /\ jsonData' = AfterRender(jsonData, searchQuery', resourceTypeFilter',
                            hasResourcesFilter', sortBy')

\* 1004
setSortBy ==
  /\ jsonData # Null
  /\ Renders
  /\ \E value \in SortOrders : sortBy' = value
  /\ UNCHANGED <<error, isLoading, isDragOver, apiVars, searchQuery,
                 resourceTypeFilter, hasResourcesFilter, expandedCenters, pending,
                 download, rawData, input, lastLoad>>
  /\ jsonData' = AfterRender(jsonData, searchQuery', resourceTypeFilter',
                            hasResourcesFilter', sortBy')

\* 496-504: the trigger of a cost center of the displayed list (1024-1027)
\* adds its id to the set, or takes it out when it is there.
toggleCenterExpansion(centerId) ==
  /\ jsonData # Null
  /\ Renders
  /\ \E i \in DOMAIN filteredAndSortedCostCenters.value :
       filteredAndSortedCostCenters.value[i].id = centerId
  /\ expandedCenters' = IF centerId \in expandedCenters
                          THEN expandedCenters \ {centerId}
                        ELSE expandedCenters \cup {centerId}
  /\ UNCHANGED <<jsonData, error, isLoading, isDragOver, apiVars, searchQuery,
                 resourceTypeFilter, hasResourcesFilter, sortBy, pending, download,
                 rawData, input, lastLoad>>

\* 570
hasActiveFilters ==
  \/ searchQuery # << >>
  \/ resourceTypeFilter # sAll
  \/ hasResourcesFilter # "all"
  \/ sortBy # "name"

\* 563-568: the button is rendered while hasActiveFilters (966).
clearFilters ==
  /\ jsonData # Null
  /\ Renders
  /\ hasActiveFilters
  /\ searchQuery' = << >>
  /\ resourceTypeFilter' = sAll
  /\ hasResourcesFilter' = "all"
  /\ sortBy' = "name"
  /\ UNCHANGED <<error, isLoading, isDragOver, apiVars, expandedCenters,
                 pending, download, rawData, input, lastLoad>>
  /\ jsonData' = AfterRender(jsonData, searchQuery', resourceTypeFilter',
                            hasResourcesFilter', sortBy')

\* 572-635: a throw of getResourceCounts leaves the handler before any file
\* is produced.
exportReport(format) ==
  /\ jsonData # Null
  /\ Renders
  /\ download' = IF ExportedFile(jsonData, format).ok
                   THEN [file |-> ExportedFile(jsonData, format).value, data |-> jsonData]
                 ELSE download
  /\ UNCHANGED <<jsonData, error, isLoading, isDragOver, apiVars, viewVars, pending,
                 rawData, input, lastLoad>>

-----------------------------------------------------------------------------
(* Inputs                                                                  *)

WrappedDocument(records) == [k |-> "object", costCenters |-> Arr(records)]

sO1 == <<"o", "1">>
sR1 == <<"R", "1">>
sU1 == <<"u", "1">>
sTeam == <<"T", "e", "a", "m">>
sArchived == <<"a", "r", "c", "h", "i", "v", "e", "d">>

\* Records of the documents given to the validator: valid ones (active,
\* deleted, another state, a resource of another type), and ones it must
\* reject (each mandatory field missing or empty, resources that is no array,
\* a null record, a null resource in an active record).
RecordPool ==
  { Center(<<"A">>, <<"Z", "e", "t", "a">>, sActive,
           <<Resource(sOrg, sO1), Resource(sTeam, <<"t">>)>>),
    Center(<<"B">>, <<"A", "l", "p", "h", "a">>, sActive,
           <<Resource(sRepo, sR1), Resource(sUser, sU1), Resource(sUser, <<"u", "2">>)>>),
    Center(<<"C">>, <<"O", "l", "d">>, sDeleted,
           <<Resource(sRepo, sR1), Resource(sUser, sU1)>>),
    Center(<<"D">>, <<"M", "i", "s", "c">>, sArchived, <<Resource(sOrg, sO1)>>),
    [k |-> "object", name |-> Str(<<"N", "o", "I", "d">>), state |-> Str(sActive),
     resources |-> Arr(<< >>)],
    [k |-> "object", id |-> Str(<<"G">>), name |-> Str(<< >>), state |-> Str(sActive),
     resources |-> Arr(<< >>)],
    [k |-> "object", id |-> Str(<<"H">>), name |-> Str(<<"N", "o", "S", "t">>),
     resources |-> Arr(<< >>)],
    [k |-> "object", id |-> Str(<<"I">>), name |-> Str(<<"N", "o", "R", "e", "s">>),
     state |-> Str(sActive)],
    [k |-> "object", id |-> Str(<<"J">>), name |-> Str(<<"S", "t", "r">>),
     state |-> Str(sActive), resources |-> Str(<<"x">>)],
    [k |-> "object", id |-> Str(<<"K">>), name |-> Str(<<"N", "u", "l", "l">>),
     state |-> Str(sActive), resources |-> Arr(<<Null>>)],
    Null }

\* File contents of the validator's specification: every list of records as a
\* bare array and under costCenters, and the shapes that are neither.
PipelineTexts ==
  {Arr(records) : records \in Seqs(RecordPool, MaxCenters)}
    \cup {WrappedDocument(records) : records \in Seqs(RecordPool, MaxCenters)}
    \cup { NotJson, Null, Num(7), Str(<<"x">>), [k |-> "object"],
           [k |-> "object", costCenters |-> Str(<<"x">>)],
           [k |-> "object", costCenters |-> Null],
           [k |-> "object", data |-> Arr(<< >>)] }

\* Valid records for the view: names and ids that differ in case, two records
\* of the same name, a record without resources, a deleted record, a resource
\* of another type, and a resource without a name.
ViewPool ==
  { Center(<<"A", "1">>, <<"a", "l", "p", "h", "a">>, sActive, <<Resource(sOrg, sO1)>>),
    Center(<<"b">>, <<"A", "l", "p", "h", "a">>, sActive, << >>),
    Center(<<"C">>, <<"O", "l", "d">>, sDeleted, <<Resource(sRepo, <<"z", "o", "1">>)>>),
    Center(<<"D">>, <<"a", "l", "p", "h", "a">>, sActive,
           <<Resource(sRepo, sR1), [k |-> "object", type |-> Str(sTeam)],
             Resource(sUser, sU1)>>) }

ViewTexts == {WrappedDocument(records) : records \in Seqs(ViewPool, MaxCenters)}

\* Records for the export: an active and a deleted record, and a record whose
\* id is a number literal beyond the double range.
ExportPool ==
  { Center(<<"A">>, <<"Z", "e", "t", "a">>, sActive,
           <<Resource(sOrg, sO1), Resource(sRepo, sR1)>>),
    Center(<<"C">>, <<"O", "l", "d">>, sDeleted, <<Resource(sUser, sU1)>>),
    [k |-> "object", id |-> Overflow, name |-> Str(<<"B", "i", "g">>),
     state |-> Str(sActive), resources |-> Arr(<<Resource(sUser, sU1)>>)] }

ExportTexts == {WrappedDocument(records) : records \in Seqs(ExportPool, MaxCenters)}

GoodText ==
  WrappedDocument(<<Center(<<"A">>, <<"Z", "e", "t", "a">>, sActive,
                           <<Resource(sOrg, sO1)>>)>>)

\* File contents and API outcomes of the application's specification.
AppTexts ==
  { NotJson, Null, GoodText,
    Arr(<<Center(<<"C">>, <<"O", "l", "d">>, sDeleted, << >>)>>),
    Arr(<<[k |-> "object", id |-> Str(<<"I">>)]>>) }

\* A response that is not ok carries a body all the same.
ApiOutcomes ==
  {NetworkError}
    \cup {Response(status, body) : status \in {200, 203}, body \in AppTexts}
    \cup {Response(status, GoodText) : status \in {401, 403, 404, 500}}

\* The outcomes of a request in the application's specification.
AppOutcomes ==
  { NetworkError, Response(200, GoodText), Response(200, Null),
    Response(401, GoodText), Response(500, GoodText) }

InputValues == {<< >>, <<" ">>, <<" ", "t", " ">>}

-----------------------------------------------------------------------------
(* The budget/actual variant of the upload pipeline (unnamed/part_001)     *)

NaN == [k |-> "number", v |-> "NaN"]
NegInfinity == [k |-> "number", v |-> "-Infinity"]

\* -x
Negate(x) ==
  CASE x.v = "finite" -> Num(0 - x.n)
    [] x.v = "Infinity" -> NegInfinity
    [] x.v = "-Infinity" -> Infinity
    [] OTHER -> NaN

\* a - b of two numbers: the difference of two infinities of the same sign is
\* NaN.
Minus(a, b) ==
  CASE a.v = "NaN" \/ b.v = "NaN" -> NaN
    [] a.v = "finite" /\ b.v = "finite" -> Num(a.n - b.n)
    [] a.v = b.v -> NaN
    [] a.v # "finite" -> a
    [] OTHER -> Negate(b)

\* a + b
Plus(a, b) == Minus(a, Negate(b))

DigitChars == <<"0", "1", "2", "3", "4", "5", "6", "7", "8", "9">>

IsDigit(c) == \E d \in DOMAIN DigitChars : DigitChars[d] = c

DigitOf(c) == (CHOOSE d \in DOMAIN DigitChars : DigitChars[d] = c) - 1

\* The leading digits of a string.
RECURSIVE DigitsPrefix(_)
DigitsPrefix(s) ==
  IF s = << >> \/ ~IsDigit(Head(s)) THEN << >>
  ELSE <<Head(s)>> \o DigitsPrefix(Tail(s))

\* The value of a string of digits.
RECURSIVE DigitsValue(_)
DigitsValue(digits) ==
  IF digits = << >> THEN 0
  ELSE 10 * DigitsValue(SubSeq(digits, 1, Len(digits) - 1))
         + DigitOf(digits[Len(digits)])

sInfinity == <<"I", "n", "f", "i", "n", "i", "t", "y">>

\* parseFloat of a string without a fraction or an exponent: leading white
\* space is skipped, a sign is read, then Infinity or the longest run of
\* digits; NaN when there is neither.
RECURSIVE ParseFloatOfString(_)
ParseFloatOfString(s) ==
  IF s = << >> THEN NaN
  ELSE IF Head(s) = " " THEN ParseFloatOfString(Tail(s))
  ELSE LET signed == Head(s) \in {"-", "+"}
           rest == IF signed THEN Tail(s) ELSE s
           magnitude ==
             IF Len(rest) >= Len(sInfinity) /\ SubSeq(rest, 1, Len(sInfinity)) = sInfinity
               THEN Infinity
             ELSE IF DigitsPrefix(rest) = << >> THEN NaN
             ELSE Num(DigitsValue(DigitsPrefix(rest)))
       IN IF Head(s) = "-" THEN Negate(magnitude) ELSE magnitude

\* parseFloat(v): v is converted to a string first; null, undefined and an
\* object give NaN.
parseFloat(v) ==
  CASE v.k = "string" -> ParseFloatOfString(v.s)
    [] v.k = "number" -> v
    [] OTHER -> NaN

\* parseFloat(v) || 0
ParseFloatOrZero(v) ==
  LET parsed == parseFloat(v)
  IN IF parsed.v = "NaN" \/ (parsed.v = "finite" /\ parsed.n = 0) THEN Num(0)
     ELSE parsed

\* obj.p = v
Put(obj, p, v) == [q \in DOMAIN obj \cup {p} |-> IF q = p THEN v ELSE obj[q]]

sCenterDash == <<"c", "e", "n", "t", "e", "r", "-">>
sCostCenter == <<"C", "o", "s", "t", " ", "C", "e", "n", "t", "e", "r", " ">>

\* `${n}` of a number below 10.
NumeralOf(n) == <<DigitChars[n + 1]>>

CannotCreateProperty(v, p) ==
  "Cannot create property '" \o p \o "' on " \o v.k

\* part_001 79-81
WithDefaultId(center, index) ==
  IF ~Truthy(Get(center, "id")) /\ ~Truthy(Get(center, "name"))
    THEN Put(center, "id", Str(sCenterDash \o NumeralOf(index + 1)))
  ELSE center

\* part_001 82-84
WithDefaultName(center, index) ==
  IF Truthy(Get(center, "name")) THEN center
  ELSE IF Truthy(Get(center, "id")) THEN Put(center, "name", Get(center, "id"))
  ELSE Put(center, "name", Str(sCostCenter \o NumeralOf(index + 1)))

\* part_001 85-90: the coercion of budget, and of actual.
WithNumber(center, field) ==
  IF Get(center, field).k # "number"
    THEN Put(center, field, ParseFloatOrZero(Get(center, field)))
  ELSE center

\* part_001 91
WithVariance(center) == Put(center, "variance", Minus(center.actual, center.budget))

\* part_001 78-93: the map callback.  Reading a property of null throws;
\* writing a property of a string or a number throws in strict mode.
ProcessBudgetCenter(center, index) ==
  IF Nullish(center) THEN Throw(TypeErrorReading(center, "id"))
  ELSE IF center.k \in {"string", "number"} THEN Throw(CannotCreateProperty(center, "id"))
  ELSE Return(WithVariance(WithNumber(WithNumber(
                WithDefaultName(WithDefaultId(center, index), index),
                "budget"), "actual")))

\* part_001 67-75: the three recognized shapes.
ExtractBudgetCenters(document) ==
  IF Nullish(document) THEN Throw(TypeErrorReading(document, "costCenters"))
  ELSE IF IsArray(document) THEN Return(document.items)
  ELSE IF Truthy(Get(document, "costCenters")) /\ IsArray(Get(document, "costCenters"))
    THEN Return(document.costCenters.items)
  ELSE IF Truthy(Get(document, "data")) /\ IsArray(Get(document, "data"))
    THEN Return(document.data.items)
  ELSE Throw("Invalid JSON structure. Expected an array of cost centers or an object with costCenters/data property.")

\* reduce((sum, center) => sum + center[field], 0)
RECURSIVE SumOf(_, _)
SumOf(centers, field) ==
  IF centers = << >> THEN Num(0)
  ELSE Plus(SumOf(SubSeq(centers, 1, Len(centers) - 1), field),
            centers[Len(centers)][field])

\* variance > 0, variance < 0, variance === 0
IsOver(x) == x.v = "Infinity" \/ (x.v = "finite" /\ x.n > 0)
IsUnder(x) == x.v = "-Infinity" \/ (x.v = "finite" /\ x.n < 0)
IsZero(x) == x.v = "finite" /\ x.n = 0

\* part_001 63-112
processBudgetJsonData(document) ==
  LET extracted == ExtractBudgetCenters(document) IN
  IF ~extracted.ok THEN extracted ELSE
  LET costCenters == extracted.value
      bad == {i \in DOMAIN costCenters : ~ProcessBudgetCenter(costCenters[i], i - 1).ok}
  IN IF bad # {}
       THEN LET first == CHOOSE i \in bad : \A j \in bad : i <= j
            IN ProcessBudgetCenter(costCenters[first], first - 1)
     ELSE
       LET processedCenters ==
             [i \in DOMAIN costCenters |-> ProcessBudgetCenter(costCenters[i], i - 1).value]
           totalBudget == SumOf(processedCenters, "budget")
           totalActual == SumOf(processedCenters, "actual")
       IN Return([
            costCenters |-> processedCenters,
            totalBudget |-> totalBudget,
            totalActual |-> totalActual,
            totalVariance |-> Minus(totalActual, totalBudget),
            summary |-> [
              overBudget |-> Len(SelectSeq(processedCenters,
                                           LAMBDA center : IsOver(center.variance))),
              underBudget |-> Len(SelectSeq(processedCenters,
                                            LAMBDA center : IsUnder(center.variance))),
              onBudget |-> Len(SelectSeq(processedCenters,
                                         LAMBDA center : IsZero(center.variance)))]])

\* part_001 39-46: handleFileUpload up to `await file.text()`; the input is
\* always rendered and is disabled while isLoading (194).
budgetHandleFileUpload ==
  /\ ~isLoading
  /\ Len(pending) < MaxPending
  /\ isLoading' = TRUE
  /\ error' = ""
  /\ pending' = Append(pending, "file")
  /\ UNCHANGED <<jsonData, isDragOver, apiVars, viewVars, download, rawData, input,
                 lastLoad>>

\* part_001 47-61: from the resolution of file.text() on.
budgetHandleFileUploadResume(text) ==
  /\ pending = <<"file">>
  /\ pending' = << >>
  /\ LET parsed == JSONparse(text)
         attempt == IF parsed.ok THEN processBudgetJsonData(parsed.value) ELSE parsed
     IN /\ jsonData' = IF attempt.ok THEN attempt.value ELSE jsonData
        /\ error' = IF attempt.ok THEN error ELSE attempt.message
        /\ rawData' = IF parsed.ok THEN parsed.value ELSE rawData
        /\ lastLoad' = [op |-> "file", ok |-> attempt.ok, response |-> Null]
  /\ isLoading' = FALSE
  /\ UNCHANGED <<isDragOver, apiVars, viewVars, download, input>>

sX == <<"x">>

\* Records of the budget documents: numbers, numeric strings, a string with a
\* numeric prefix, strings that are no number, a number literal beyond the
\* double range, the string Infinity, missing fields, and a null record.
BudgetPool ==
  { [k |-> "object", id |-> Str(<<"a">>), budget |-> Num(5), actual |-> Num(9)],
    [k |-> "object", id |-> Str(<<"b">>), budget |-> Str(<<"7">>), actual |-> Num(3)],
    [k |-> "object", name |-> Str(<<"n">>), budget |-> Str(sX),
     actual |-> Str(<<" ", "1", "2", "k">>)],
    [k |-> "object", budget |-> Str(sX)],
    [k |-> "object", id |-> Str(<<"e">>), budget |-> Overflow, actual |-> Overflow],
    [k |-> "object", id |-> Str(<<"f">>), budget |-> Str(sInfinity),
     actual |-> Str(sInfinity)],
    [k |-> "object", id |-> Str(<<"g">>), budget |-> Str(<<"-", "4">>), actual |-> Null],
    Null }

\* The budget documents: the record lists in each of the three shapes, and a
\* shape that is none of them.
BudgetTexts ==
  {Arr(records) : records \in Seqs(BudgetPool, MaxCenters)}
    \cup {[k |-> "object", data |-> Arr(records)] : records \in Seqs(BudgetPool, 1)}
    \cup {WrappedDocument(records) : records \in Seqs(BudgetPool, 1)}
    \cup {NotJson, [k |-> "object"]}

-----------------------------------------------------------------------------
(* Specifications                                                          *)

\* The application: every way of loading, with loads overlapping.
Init == Mounted /\ input = NotJson

Next ==
  \/ handleFileUpload
  \/ \E hasJson \in BOOLEAN : handleDrop(hasJson)
  \/ \E i \in 1..MaxPending, text \in AppTexts : processFileResume(i, text)
  \/ fetchFromAPI
  \/ saveAPIConfigAndFetch
  \/ \E i \in 1..MaxPending, outcome \in AppOutcomes : fetchFromAPIResume(i, outcome)
  \/ \E i \in 1..MaxPending, outcome \in AppOutcomes :
       saveAPIConfigAndFetchResume(i, outcome)
  \/ clearAPIConfig
  \/ \E value \in InputValues : setTempToken(value)
  \/ \E value \in InputValues : setTempEnterprise(value)
  \/ loadExampleData
  \/ loadNewData

Spec == Init /\ [][Next]_vars

\* The validator and the aggregator: the user uploads one file, whose content
\* is any of the documents.
InitPipeline == Mounted /\ input \in PipelineTexts

NextPipeline ==
  \/ handleFileUpload
  \/ processFileResume(1, input)
  \/ loadNewData

SpecPipeline == InitPipeline /\ [][NextPipeline]_vars

\* The filter/sort engine: the user uploads any of the valid documents and
\* works the view controls.
InitView == Mounted /\ input \in ViewTexts

NextView ==
  \/ handleFileUpload
  \/ processFileResume(1, input)
  \/ setSearchQuery
  \/ setResourceTypeFilter
  \/ setHasResourcesFilter
  \/ setSortBy
  \/ clearFilters

SpecView == InitView /\ [][NextView]_vars

\* The export: the user uploads any of the valid documents, exports, and
\* uploads the exported report.
InitExport == Mounted /\ input \in ExportTexts

\* 181-207 on the file that the last JSON export wrote.
uploadExportedReport ==
  /\ download # Null
  /\ download.file.type = "application/json"
  /\ processFileResume(1, download.file.json)

NextExport ==
  \/ handleFileUpload
  \/ processFileResume(1, input)
  \/ uploadExportedReport
  \/ \E format \in {"json", "csv"} : exportReport(format)
  \/ loadNewData

SpecExport == InitExport /\ [][NextExport]_vars

\* A session on the page: the user loads one document and then another, works
\* every control of the view, expands and collapses cost centers, and exports.
SessionTexts ==
  { WrappedDocument(<<
      Center(<<"C">>, <<"O", "l", "d">>, sDeleted, <<Resource(sRepo, <<"z", "o", "1">>)>>),
      Center(<<"A", "1">>, <<"a", "l", "p", "h", "a">>, sActive,
             <<Resource(sOrg, sO1)>>)>>),
    Arr(<<
      Center(<<"b">>, <<"A", "l", "p", "h", "a">>, sActive, << >>),
      Center(<<"A", "1">>, <<"a", "l", "p", "h", "a">>, sActive,
             <<Resource(sOrg, sO1)>>)>>) }

SessionIds == {Str(<<"A", "1">>), Str(<<"b">>), Str(<<"C">>)}

InitSession == Mounted /\ input \in SessionTexts

NextSession ==
  \/ handleFileUpload
  \/ \E text \in SessionTexts : processFileResume(1, text)
  \/ setSearchQuery /\ searchQuery' \in {<< >>, <<"B">>}
  \/ setResourceTypeFilter /\ resourceTypeFilter' \in {sAll, sOrg}
  \/ setHasResourcesFilter /\ hasResourcesFilter' \in {"all", "with-resources"}
  \/ setSortBy /\ sortBy' \in {"name", "total-resources"}
  \/ clearFilters
  \/ \E centerId \in SessionIds : toggleCenterExpansion(centerId)
  \/ \E format \in {"json", "csv"} : exportReport(format)
  \/ loadNewData

SpecSession == InitSession /\ [][NextSession]_vars

\* The view parameters across data sets: the user loads in every way there is,
\* discards, and works the view controls in between.
InitParams == Mounted /\ input = GoodText

ParamsOutcomes == {Response(200, GoodText), Response(401, GoodText)}

NextParams ==
  \/ handleFileUpload
  \/ \E hasJson \in BOOLEAN : handleDrop(hasJson)
  \/ \E i \in 1..MaxPending : processFileResume(i, input)
  \/ setTempToken(<<"t">>)
  \/ setTempEnterprise(<<"t">>)
  \/ saveAPIConfigAndFetch
  \/ fetchFromAPI
  \/ \E i \in 1..MaxPending, outcome \in ParamsOutcomes : fetchFromAPIResume(i, outcome)
  \/ \E i \in 1..MaxPending, outcome \in ParamsOutcomes :
       saveAPIConfigAndFetchResume(i, outcome)
  \/ loadExampleData
  \/ loadNewData
  \/ setSearchQuery /\ searchQuery' \in {<< >>, <<"A">>}
  \/ setResourceTypeFilter /\ resourceTypeFilter' \in {sAll, sOrg}
  \/ setHasResourcesFilter /\ hasResourcesFilter' \in {"all", "with-resources"}
  \/ setSortBy /\ sortBy' \in {"name", "orgs"}
  \/ clearFilters
  \/ toggleCenterExpansion(Str(<<"A">>))

SpecParams == InitParams /\ [][NextParams]_vars

\* The budget/actual variant: the user uploads any of the budget documents,
\* again and again.
InitBudget == Mounted /\ input \in BudgetTexts

NextBudget ==
  \/ budgetHandleFileUpload
  \/ budgetHandleFileUploadResume(input)

SpecBudget == InitBudget /\ [][NextBudget]_vars

\* The life of the stored configuration: the user saves it, fetches, clears
\* it, and does everything else the page offers.
InitConfig == Mounted /\ input = GoodText

\* What is typed into the two fields of the configuration.
ConfigInputs == {<< >>, <<" ", "t", " ">>}

NextConfig ==
  \/ \E value \in ConfigInputs : setTempToken(value)
  \/ \E value \in ConfigInputs : setTempEnterprise(value)
  \/ saveAPIConfigAndFetch
  \/ fetchFromAPI
  \/ \E i \in 1..MaxPending, outcome \in AppOutcomes : fetchFromAPIResume(i, outcome)
  \/ \E i \in 1..MaxPending, outcome \in AppOutcomes :
       saveAPIConfigAndFetchResume(i, outcome)
  \/ clearAPIConfig
  \/ handleFileUpload
  \/ \E i \in 1..MaxPending : processFileResume(i, input)
  \/ loadExampleData
  \/ setSortBy
  \/ clearFilters
  \/ \E format \in {"json", "csv"} : exportReport(format)
  \/ loadNewData

SpecConfig == InitConfig /\ [][NextConfig]_vars

\* The specification of the API loads: the configuration, one request at a
\* time, and every outcome of it.
InitApi == Mounted /\ input = NotJson

NextApi ==
  \/ \E value \in InputValues : setTempToken(value)
  \/ \E value \in InputValues : setTempEnterprise(value)
  \/ saveAPIConfigAndFetch
  \/ fetchFromAPI
  \/ \E i \in 1..MaxPending, outcome \in ApiOutcomes : fetchFromAPIResume(i, outcome)
  \/ \E i \in 1..MaxPending, outcome \in ApiOutcomes :
       saveAPIConfigAndFetchResume(i, outcome)
  \/ clearAPIConfig
  \/ loadNewData

SpecApi == InitApi /\ [][NextApi]_vars

-----------------------------------------------------------------------------
(* Properties of the validator and the aggregator (SpecPipeline)           *)

\* The step in which a load operation ends.
LoadEnds == Len(pending') < Len(pending)

\* A parsed value of one of the two recognized shapes.
RecognizedShape(v) ==
  \/ v.k = "array"
  \/ v.k = "object" /\ "costCenters" \in DOMAIN v /\ v.costCenters.k = "array"

\* The record list of a value of a recognized shape.
RecordsOf(v) == IF v.k = "array" THEN v.items ELSE v.costCenters.items

\* The records of a list whose state is the given one.
WithState(records, state) == {i \in DOMAIN records : records[i].state = Str(state)}

\* The resources of the given type in the records at the given positions.
ResourcesOfType(records, positions, type) ==
  {p \in UNION {{<<i, j>> : j \in DOMAIN records[i].resources.items} : i \in positions} :
     Get(records[p[1]].resources.items[p[2]], "type") = Str(type)}

\* The summary a full scan of a record list gives.
FreshScan(records) ==
  [totalActive |-> Cardinality(WithState(records, sActive)),
   totalDeleted |-> Cardinality(WithState(records, sDeleted)),
   totalOrganizations |->
     Cardinality(ResourcesOfType(records, WithState(records, sActive), sOrg)),
   totalRepositories |->
     Cardinality(ResourcesOfType(records, WithState(records, sActive), sRepo)),
   totalMembers |->
     Cardinality(ResourcesOfType(records, WithState(records, sActive), sUser))]

\* C1: whenever a data set is held, its summary is what a fresh full scan of
\* the accepted document gives: the records whose state is active, those whose
\* state is deleted, and the Org, Repo and User resources of the active
\* records only.
C1_SummaryIsFreshScan ==
  jsonData # Null => jsonData.summary = FreshScan(RecordsOf(rawData))

\* C1 witness: an accepted document of two active records and a deleted one
\* that has a Repo and a User of its own, which the summary leaves out.
C1_Witness ==
  /\ jsonData # Null
  /\ \E i \in DOMAIN jsonData.deletedCostCenters :
       CountOfType(jsonData.deletedCostCenters[i], sRepo) > 0
  /\ jsonData.summary = [totalActive |-> 2, totalDeleted |-> 1, totalOrganizations |-> 1,
                         totalRepositories |-> 1, totalMembers |-> 2]

\* C2: whenever a data set is held, every record of costCenters is in
\* activeCostCenters or in deletedCostCenters, and in one of them only, as many
\* times as it is in costCenters.
C2_ViewsPartitionTheList ==
  jsonData # Null =>
    \A i \in DOMAIN jsonData.costCenters :
      Count(jsonData.activeCostCenters, jsonData.costCenters[i])
        + Count(jsonData.deletedCostCenters, jsonData.costCenters[i])
        = Count(jsonData.costCenters, jsonData.costCenters[i])

\* C3: a file load whose parsed value has none of the recognized shapes ends
\* with the 'Invalid JSON structure' message and with no data set.
C3_UnrecognizedShapeIsInvalidStructure ==
  [][(LoadEnds /\ JSONparse(input).ok /\ ~RecognizedShape(rawData'))
       => (~lastLoad'.ok /\ error' = InvalidStructure /\ jsonData' = Null)]_vars

\* A record that lacks id, name, state or an array-valued resources.
Lacking(record) ==
  \/ ~Truthy(Get(record, "id"))
  \/ ~Truthy(Get(record, "name"))
  \/ ~Truthy(Get(record, "state"))
  \/ Get(record, "resources").k # "array"

Offending(records) == {i \in DOMAIN records : Lacking(records[i])}

\* C4: a file load of a recognized shape with an offending record ends with the
\* message that names the 0-based index of the first offending record, and
\* with no data set.
C4_FirstOffendingIndexIsNamed ==
  [][(LoadEnds /\ JSONparse(input).ok /\ RecognizedShape(rawData')
        /\ Offending(RecordsOf(rawData')) # {})
       => (/\ ~lastLoad'.ok
           /\ jsonData' = Null
           /\ \E first \in Offending(RecordsOf(rawData')) :
                /\ \A i \in Offending(RecordsOf(rawData')) : first <= i
                /\ error' = InvalidCenter(first - 1))]_vars

-----------------------------------------------------------------------------
(* Properties of the load operations (Spec)                                *)

\* C5: a load operation that fails ends in a state that holds no data set and
\* shows a message.
C5_FailedLoadLeavesNoData ==
  [][(LoadEnds /\ ~lastLoad'.ok) => (jsonData' = Null /\ error' # "")]_vars

\* C6: at most one load operation has begun and not yet ended.
C6_OneLoadInFlight == Len(pending) <= 1

-----------------------------------------------------------------------------
(* Properties of the export (SpecExport)                                   *)

\* The ids of a record list, in order.
IdsOf(centers) == [i \in DOMAIN centers |-> Get(centers[i], "id")]

\* The Org, Repo and User counts of each record of a list, in order.
CountsOf(centers) ==
  [i \in DOMAIN centers |->
     [type \in {sOrg, sRepo, sUser} |->
        Cardinality({j \in DOMAIN centers[i].resources.items :
                       Get(centers[i].resources.items[j], "type") = Str(type)})]]

\* The step in which the load of the file that the last JSON export wrote ends.
ExportedReportLoadEnds ==
  /\ LoadEnds
  /\ download # Null
  /\ download.file.type = "application/json"
  /\ rawData' = JSONparse(download.file.json).value

\* C7: the load of an exported JSON report succeeds, and the data set it gives
\* has the ids, the resource counts per record and the summary of the data set
\* the report was written from.
C7_JsonExportRoundTrip ==
  [][ExportedReportLoadEnds
       => (/\ lastLoad'.ok
           /\ jsonData' # Null
           /\ IdsOf(jsonData'.costCenters) = IdsOf(download.data.costCenters)
           /\ CountsOf(jsonData'.costCenters) = CountsOf(download.data.costCenters)
           /\ jsonData'.summary = download.data.summary)]_vars

-----------------------------------------------------------------------------
(* Properties of the filters (SpecView)                                    *)

\* q is a substring of s.
IsSubstring(q, s) == \E i \in 0..(Len(s) - Len(q)) : SubSeq(s, i + 1, i + Len(q)) = q

\* The lower-cased query is a substring of the lower-cased string value v.
Mentions(v, query) == v.k = "string" /\ IsSubstring(toLowerCase(query), toLowerCase(v.s))

\* The search predicate.
PassesSearch(center, query) ==
  \/ query = << >>
  \/ Mentions(Get(center, "name"), query)
  \/ Mentions(Get(center, "id"), query)
  \/ \E j \in DOMAIN center.resources.items :
       Mentions(Get(center.resources.items[j], "name"), query)

\* The resource-type predicate.
PassesResourceType(center, filter) ==
  \/ filter = sAll
  \/ \E j \in DOMAIN center.resources.items :
       Get(center.resources.items[j], "type") = Str(filter)

\* The has-resources predicate.
PassesHasResources(center, filter) ==
  CASE filter = "all" -> TRUE
    [] filter = "with-resources" -> Len(center.resources.items) > 0
    [] filter = "empty" -> Len(center.resources.items) = 0

\* result holds the elements of list that satisfy Passes, each as many times
\* as list holds it, and nothing else.
HoldsExactly(result, list, Passes(_)) ==
  /\ Len(result) = Cardinality({i \in DOMAIN list : Passes(list[i])})
  /\ \A i \in DOMAIN list :
       Count(result, list[i]) = IF Passes(list[i]) THEN Count(list, list[i]) ELSE 0

\* The search filter alone is at work, and the list has been computed.
OnlySearchFilters ==
  /\ jsonData # Null
  /\ resourceTypeFilter = sAll
  /\ hasResourcesFilter = "all"
  /\ filteredAndSortedCostCenters.ok

\* C8: with the two other filters at 'all', the displayed list holds exactly
\* the active cost centers whose name, id or some resource name contains the
\* query, case ignored; with the empty query it holds them all.
C8_SearchFilter ==
  OnlySearchFilters =>
    LET shown == filteredAndSortedCostCenters.value
        Passes(center) == PassesSearch(center, searchQuery)
    IN /\ HoldsExactly(shown, jsonData.activeCostCenters, Passes)
       /\ searchQuery = << >> => Len(shown) = Len(jsonData.activeCostCenters)

\* C8 witness: the query "O1" keeps a cost center that only a resource name
\* matches and drops another one.
C8_Witness ==
  /\ OnlySearchFilters
  /\ searchQuery = <<"O", "1">>
  /\ Len(filteredAndSortedCostCenters.value) < Len(jsonData.activeCostCenters)
  /\ \E i \in DOMAIN filteredAndSortedCostCenters.value :
       LET center == filteredAndSortedCostCenters.value[i]
       IN /\ ~Mentions(center.name, searchQuery)
          /\ ~Mentions(center.id, searchQuery)

\* The resource-type filter alone is at work, and the list has been computed.
OnlyResourceTypeFilters ==
  /\ jsonData # Null
  /\ searchQuery = << >>
  /\ hasResourcesFilter = "all"
  /\ filteredAndSortedCostCenters.ok

\* C9: with the two other filters off, the displayed list holds exactly the
\* active cost centers that have a resource of the selected type (all of them
\* under 'all'), each with the resources list it has in the data set.
C9_ResourceTypeFilter ==
  OnlyResourceTypeFilters =>
    LET shown == filteredAndSortedCostCenters.value
        Passes(center) == PassesResourceType(center, resourceTypeFilter)
    IN /\ HoldsExactly(shown, jsonData.activeCostCenters, Passes)
       /\ resourceTypeFilter = sAll => Len(shown) = Len(jsonData.activeCostCenters)
       /\ \A i \in DOMAIN shown :
            \E j \in DOMAIN jsonData.activeCostCenters :
              /\ shown[i].id = jsonData.activeCostCenters[j].id
              /\ shown[i].resources = jsonData.activeCostCenters[j].resources

\* C9 witness: the filter Repo keeps a cost center together with its resources
\* of other types and drops another one.
C9_Witness ==
  /\ OnlyResourceTypeFilters
  /\ resourceTypeFilter = sRepo
  /\ Len(filteredAndSortedCostCenters.value) < Len(jsonData.activeCostCenters)
  /\ \E i \in DOMAIN filteredAndSortedCostCenters.value :
       \E j \in DOMAIN filteredAndSortedCostCenters.value[i].resources.items :
         filteredAndSortedCostCenters.value[i].resources.items[j].type = Str(sUser)

\* C10: the displayed list holds exactly the active cost centers that satisfy
\* the search predicate, the resource-type predicate and the has-resources
\* predicate together.
C10_FiltersAreConjoined ==
  jsonData # Null =>
    LET memo == filteredAndSortedCostCenters
        Passes(center) ==
          /\ PassesSearch(center, searchQuery)
          /\ PassesResourceType(center, resourceTypeFilter)
          /\ PassesHasResources(center, hasResourcesFilter)
    IN memo.ok => HoldsExactly(memo.value, jsonData.activeCostCenters, Passes)

\* C10 witness: the three filters are all set, one cost center satisfies them
\* all, and another one, which satisfies two of them, is dropped.
C10_Witness ==
  /\ jsonData # Null
  /\ filteredAndSortedCostCenters.ok
  /\ searchQuery # << >>
  /\ resourceTypeFilter # sAll
  /\ hasResourcesFilter = "with-resources"
  /\ Len(filteredAndSortedCostCenters.value) > 0
  /\ \E i \in DOMAIN jsonData.activeCostCenters :
       LET center == jsonData.activeCostCenters[i]
       IN /\ PassesSearch(center, searchQuery)
          /\ PassesHasResources(center, hasResourcesFilter)
          /\ ~PassesResourceType(center, resourceTypeFilter)

-----------------------------------------------------------------------------
(* Properties of the sort (SpecView)                                       *)

\* The list has been computed.
Displayed == jsonData # Null /\ filteredAndSortedCostCenters.ok

\* The number of resources of a type in a cost center.
NumberOfType(center, type) ==
  Cardinality({j \in DOMAIN center.resources.items :
                 Get(center.resources.items[j], "type") = Str(type)})

\* first may stand before second under the sort order.
InOrder(first, second, order) ==
  CASE order = "name" -> localeCompare(first.name.s, second.name.s) <= 0
    [] order = "total-resources" ->
         Len(first.resources.items) >= Len(second.resources.items)
    [] order = "orgs" -> NumberOfType(first, sOrg) >= NumberOfType(second, sOrg)
    [] order = "repos" -> NumberOfType(first, sRepo) >= NumberOfType(second, sRepo)
    [] order = "users" -> NumberOfType(first, sUser) >= NumberOfType(second, sUser)

\* C11: every two adjacent cost centers of the displayed list are in the
\* selected order: names non-decreasing, or the selected count non-increasing.
C11_AdjacentPairsInOrder ==
  jsonData # Null =>
    LET memo == filteredAndSortedCostCenters
    IN memo.ok =>
         \A i \in 1..(Len(memo.value) - 1) :
           InOrder(memo.value[i], memo.value[i + 1], sortBy)

\* C11 witness: sorted by repos, the displayed list has a cost center with a
\* Repo before one without, which the data set holds the other way round.
C11_Witness ==
  /\ Displayed
  /\ sortBy = "repos"
  /\ Len(filteredAndSortedCostCenters.value) = 2
  /\ jsonData.activeCostCenters = <<filteredAndSortedCostCenters.value[2],
                                    filteredAndSortedCostCenters.value[1]>>
  /\ NumberOfType(filteredAndSortedCostCenters.value[1], sRepo)
       > NumberOfType(filteredAndSortedCostCenters.value[2], sRepo)

\* C12: the data set held is the one the validator returned for the document,
\* with costCenters and activeCostCenters in the order it gave them, however
\* many times the list has been filtered and sorted since.
C12_SourceNotMutated ==
  jsonData # Null =>
    LET returned == processJsonData(rawData).value
    IN /\ jsonData.activeCostCenters = returned.activeCostCenters
       /\ jsonData.costCenters = returned.costCenters

\* C12 witness: the displayed list has been sorted by total resources into an
\* order that is not the order of the active cost centers of the data set.
C12_Witness ==
  /\ Displayed
  /\ sortBy = "total-resources"
  /\ Len(filteredAndSortedCostCenters.value) = Len(jsonData.activeCostCenters)
  /\ filteredAndSortedCostCenters.value # jsonData.activeCostCenters

\* No filter is set, and the list has been computed.
NoFilters ==
  /\ Displayed
  /\ searchQuery = << >>
  /\ resourceTypeFilter = sAll
  /\ hasResourcesFilter = "all"

\* C13: with no filter set, the displayed list is a permutation of the active
\* cost centers of the data set, under every sort order: as long as that list,
\* and holding each of its records as many times.
C13_PermutationWithoutFilters ==
  (/\ jsonData # Null
   /\ searchQuery = << >>
   /\ resourceTypeFilter = sAll
   /\ hasResourcesFilter = "all") =>
    LET memo == filteredAndSortedCostCenters
    IN memo.ok =>
         /\ Len(memo.value) = Len(jsonData.activeCostCenters)
         /\ \A i \in DOMAIN jsonData.activeCostCenters :
              Count(memo.value, jsonData.activeCostCenters[i])
                = Count(jsonData.activeCostCenters, jsonData.activeCostCenters[i])

\* C13 witness: no filter is set, the data set holds one active record twice,
\* and the sort by users has moved records.
C13_Witness ==
  /\ NoFilters
  /\ sortBy = "users"
  /\ \E i, j \in DOMAIN jsonData.activeCostCenters :
       i # j /\ jsonData.activeCostCenters[i] = jsonData.activeCostCenters[j]
  /\ filteredAndSortedCostCenters.value # jsonData.activeCostCenters

\* C14: the list displayed under the sort by name is left as it is by the sort
\* by name, cost centers of equal names included.
C14_NameSortIdempotent ==
  (jsonData # Null /\ sortBy = "name") =>
    LET memo == filteredAndSortedCostCenters
    IN memo.ok => StableSort(<< >>, memo.value, "name") = memo.value

\* C14 witness: the list displayed under the sort by name is in another order
\* than the data set, and holds two different cost centers of the same name
\* side by side.
C14_Witness ==
  /\ Displayed
  /\ sortBy = "name"
  /\ Len(filteredAndSortedCostCenters.value) = Len(jsonData.activeCostCenters)
  /\ filteredAndSortedCostCenters.value # jsonData.activeCostCenters
  /\ \E i \in 1..(Len(filteredAndSortedCostCenters.value) - 1) :
       /\ filteredAndSortedCostCenters.value[i].name
            = filteredAndSortedCostCenters.value[i + 1].name
       /\ filteredAndSortedCostCenters.value[i].id
            # filteredAndSortedCostCenters.value[i + 1].id

-----------------------------------------------------------------------------
(* Properties of the CSV export (SpecExport)                               *)

\* A value between double quotes, as it is, nothing escaped.
Quoted(v) == <<"\"">> \o ToStringJS(v) \o <<"\"">>

\* The row of a record: the name, the id and the state between double quotes,
\* then the number of resources and the numbers of Org, Repo and User.
QuotedRow(center) ==
  Quoted(center.name) \o <<",">> \o Quoted(center.id) \o <<",">> \o Quoted(center.state)
    \o <<",">> \o NumberToString(Len(center.resources.items))
    \o <<",">> \o NumberToString(NumberOfType(center, sOrg))
    \o <<",">> \o NumberToString(NumberOfType(center, sRepo))
    \o <<",">> \o NumberToString(NumberOfType(center, sUser))

\* The CSV file of the last export, written from a data set.
CsvExported == download # Null /\ download.file.type = "text/csv"

\* C15: a CSV export holds the header row, then one row per record of
\* costCenters in order, each with the name, the id and the state between
\* double quotes followed by the four counts.
C15_CsvRowsQuoteStringFields ==
  CsvExported =>
    /\ Len(download.file.lines) = 1 + Len(download.data.costCenters)
    /\ download.file.lines[1] = Join(CsvHeaders, <<",">>)
    /\ \A i \in DOMAIN download.data.costCenters :
         download.file.lines[i + 1] = QuotedRow(download.data.costCenters[i])

-----------------------------------------------------------------------------
(* Deleted cost centers (SpecExport)                                       *)

\* The records of a list that are not deleted.
NotDeleted(records) == SelectSeq(records, LAMBDA record : record.state # Str(sDeleted))

\* The exported file holds, for each record of the data set it was written
\* from and in the same order, a record or a row of that name and state.
FileHoldsEveryRecord ==
  LET records == download.data.costCenters IN
  IF download.file.type = "application/json"
    THEN /\ Len(download.file.json.costCenters.items) = Len(records)
         /\ \A i \in DOMAIN records :
              /\ download.file.json.costCenters.items[i].name = records[i].name
              /\ download.file.json.costCenters.items[i].state = records[i].state
  ELSE /\ Len(download.file.lines) = 1 + Len(records)
       /\ \A i \in DOMAIN records :
            /\ SubSeq(download.file.lines[i + 1], 1, Len(Quoted(records[i].name)))
                 = Quoted(records[i].name)
            /\ IsSubstring(<<",">> \o ToStringJS(records[i].state) \o <<",">>,
                           download.file.lines[i + 1])

\* C16: under every setting of the filters and of the sort, the displayed list
\* holds no deleted record; the three resource totals are those of the data
\* set without its deleted records; and an exported file, JSON or CSV, holds
\* every record of costCenters, the deleted ones included.
C16_DeletedHiddenButExported ==
  /\ jsonData # Null =>
       /\ \A query \in Queries, type \in ResourceTypeFilters,
             has \in HasResourcesFilters, order \in SortOrders :
            LET list == FilterAndSort(jsonData, query, type, has, order)
            IN list.ok => \A i \in DOMAIN list.value :
                            list.value[i].state # Str(sDeleted)
       /\ LET scan == FreshScan(NotDeleted(jsonData.costCenters))
          IN /\ jsonData.summary.totalOrganizations = scan.totalOrganizations
             /\ jsonData.summary.totalRepositories = scan.totalRepositories
             /\ jsonData.summary.totalMembers = scan.totalMembers
  /\ download # Null => FileHoldsEveryRecord

\* C16 witness: the data set holds active records and a deleted record with a
\* User, no User is counted, and the CSV file written from it is at hand.
C16_Witness ==
  /\ jsonData # Null
  /\ jsonData.activeCostCenters # << >>
  /\ \E i \in DOMAIN jsonData.deletedCostCenters :
       NumberOfType(jsonData.deletedCostCenters[i], sUser) > 0
  /\ jsonData.summary.totalMembers = 0
  /\ CsvExported
  /\ download.data = jsonData

-----------------------------------------------------------------------------
(* Properties of the API loads (SpecApi)                                   *)

\* The step in which a request of the API ends with a response.
ResponseArrives ==
  /\ LoadEnds
  /\ lastLoad'.op \in {"fetch", "save"}
  /\ lastLoad'.response.k = "response"

\* The message of each of the four causes of a failed request.
CauseOf(status) ==
  CASE status = 401 -> "Authentication failed. Please check your GitHub token."
    [] status = 403 ->
         "Access denied. You may not have permission to access this enterprise's cost centers."
    [] status = 404 -> "Enterprise not found. Please check your enterprise slug."
    [] OTHER -> "API request failed with status " \o ToString(status)

\* The parsed body of the response is what the validator is given, and the
\* load ends as the validator does.
BodyGoesToValidator ==
  JSONparse(lastLoad'.response.body).ok =>
    /\ rawData' = JSONparse(lastLoad'.response.body).value
    /\ lastLoad'.ok = processJsonData(rawData').ok
    /\ lastLoad'.ok => jsonData' = processJsonData(rawData').value

\* The load fails with the message of the cause; the validator is not called
\* and the data set is left as it is.
TreatedAsFailure ==
  /\ ~lastLoad'.ok
  /\ error' = CauseOf(lastLoad'.response.status)
  /\ rawData' = rawData
  /\ jsonData' = jsonData

\* C17, as the code has it: a response whose status is in 200..299 has its
\* parsed body given to processJsonData; every other response is a failure
\* with the message of its cause, its body is not validated and jsonData is
\* left as it is.
C17_Non2xxIsFailure ==
  [][ResponseArrives =>
       IF lastLoad'.response.status \in 200..299 THEN BodyGoesToValidator
       ELSE TreatedAsFailure]_vars

\* C17, as stated: a response of status 200 has its parsed body given to
\* processJsonData; every response of another status is a failure with the
\* message of its cause, its body is not validated and jsonData is left as it
\* is.
C17_Non200IsFailure ==
  [][ResponseArrives =>
       IF lastLoad'.response.status = 200 THEN BodyGoesToValidator
       ELSE TreatedAsFailure]_vars

\* C17 witness: a response of status 203 with a valid document has been
\* loaded.
C17_Witness ==
  /\ lastLoad.op \in {"fetch", "save"}
  /\ lastLoad.response.k = "response"
  /\ lastLoad.response.status = 203
  /\ lastLoad.ok
  /\ jsonData # Null

\* The requests of the API that have been sent and not yet answered.
RequestsInFlight(awaits) ==
  Len(SelectSeq(awaits, LAMBDA op : op \in {"fetch", "save"}))

\* The step in which a fetch action passes its checks and reaches its await:
\* it is the only step of the API loads that raises isLoading.
FetchBegins == ~isLoading /\ isLoading'

\* The step in which a request of the API is answered or fails: the finally
\* block of the fetch action lowers isLoading.
FetchEnds == isLoading /\ ~isLoading' /\ lastLoad'.op \in {"fetch", "save"}

\* C18: a fetch action sends exactly one request; the step that ends it, with
\* a response or with a failure, takes that request away and sends no other
\* one, and no other step sends a request; the body of the one response,
\* parsed, is the argument of processJsonData.
C18_OneRequestPerFetch ==
  [][/\ FetchBegins => RequestsInFlight(pending') = RequestsInFlight(pending) + 1
     /\ FetchEnds => RequestsInFlight(pending') = RequestsInFlight(pending) - 1
     /\ ~FetchBegins => RequestsInFlight(pending') <= RequestsInFlight(pending)
     /\ (FetchEnds /\ rawData' # rawData) =>
          /\ lastLoad'.response.k = "response"
          /\ JSONparse(lastLoad'.response.body).ok
          /\ rawData' = JSONparse(lastLoad'.response.body).value]_vars

\* C18 witness: a request that failed in transport has ended its load, and no
\* request is in flight.
C18_Witness ==
  /\ lastLoad.op \in {"fetch", "save"}
  /\ lastLoad.response = NetworkError
  /\ ~lastLoad.ok
  /\ RequestsInFlight(pending) = 0
  /\ ~isLoading

-----------------------------------------------------------------------------
(* Properties of the stored configuration (SpecConfig)                     *)

Spaces(n) == [i \in 1..n |-> " "]

\* t is s without its leading and trailing white space.
IsTrimOf(t, s) ==
  /\ t = << >> \/ (Head(t) # " " /\ t[Len(t)] # " ")
  /\ \E before, after \in 0..Len(s) : s = Spaces(before) \o t \o Spaces(after)

\* The step of an explicit save: the configuration is written from the two
\* fields, trimmed, while the request it sends is still to be answered.
ExplicitSave ==
  /\ apiConfig'.k = "object"
  /\ apiConfig'.token.k = "string" /\ IsTrimOf(apiConfig'.token.s, tempToken)
  /\ apiConfig'.enterprise.k = "string"
  /\ IsTrimOf(apiConfig'.enterprise.s, tempEnterprise)
  /\ pending' = Append(pending, "save")
  /\ lastLoad' = lastLoad

\* The step of an explicit clear: nothing is loaded, sent or answered in it.
ExplicitClear ==
  /\ apiConfig' = Null
  /\ UNCHANGED <<jsonData, pending, lastLoad, download, viewVars>>

\* C19: apiConfig changes only in an explicit save, to the trimmed token and
\* enterprise and before the request of the save is answered, and in an
\* explicit clear, to null; no step that ends a load, loads or drops a data
\* set, changes a view control or exports changes it.
C19_ConfigChangesOnlyBySaveAndClear ==
  [][/\ apiConfig' # apiConfig => ExplicitSave \/ ExplicitClear
     /\ (\/ Len(pending') < Len(pending)
         \/ lastLoad' # lastLoad
         \/ jsonData' # jsonData
         \/ viewVars' # viewVars
         \/ download' # download) => apiConfig' = apiConfig]_vars

\* C19 witness: the configuration written by a save is still stored after its
\* request was answered with 401.
C19_Witness ==
  /\ apiConfig = ApiConfig(<<"t">>, <<"t">>)
  /\ lastLoad.op = "save"
  /\ ~lastLoad.ok
  /\ lastLoad.response # Null
  /\ lastLoad.response.k = "response"
  /\ lastLoad.response.status = 401

-----------------------------------------------------------------------------
(* Properties of the states outside active and deleted (SpecPipeline)      *)

\* A record with the four mandatory fields: id, name and state truthy,
\* resources an array.
HasMandatoryFields(record) ==
  /\ record.k = "object"
  /\ \A field \in {"id", "name", "state"} :
       /\ field \in DOMAIN record
       /\ record[field] \notin {Null, Undefined, Str(<< >>), Num(0)}
  /\ "resources" \in DOMAIN record
  /\ record.resources.k = "array"

\* A record list the pipeline has nothing to refuse in: every record has the
\* mandatory fields and every resource is an object.
NothingToRefuse(records) ==
  \A i \in DOMAIN records :
    /\ HasMandatoryFields(records[i])
    /\ \A j \in DOMAIN records[i].resources.items :
         records[i].resources.items[j].k = "object"

\* The records of a list whose state is neither active nor deleted.
OfOtherState(records) ==
  {i \in DOMAIN records : records[i].state \notin {Str(sActive), Str(sDeleted)}}

\* C20: a load of a document whose records all have the mandatory fields
\* succeeds whatever their states are; a record whose state is neither active
\* nor deleted stays in costCenters and is in neither view, so the two views
\* together are as long as costCenters less the number of such records, and
\* as long as costCenters exactly when there is none.
C20_OtherStatesFallThrough ==
  [][(/\ LoadEnds
      /\ JSONparse(input).ok
      /\ RecognizedShape(rawData')
      /\ NothingToRefuse(RecordsOf(rawData')))
       => /\ lastLoad'.ok
          /\ jsonData' # Null
          /\ jsonData'.costCenters = RecordsOf(rawData')
          /\ \A i \in OfOtherState(jsonData'.costCenters) :
               /\ Count(jsonData'.activeCostCenters, jsonData'.costCenters[i]) = 0
               /\ Count(jsonData'.deletedCostCenters, jsonData'.costCenters[i]) = 0
          /\ Len(jsonData'.activeCostCenters) + Len(jsonData'.deletedCostCenters)
               = Len(jsonData'.costCenters)
                   - Cardinality(OfOtherState(jsonData'.costCenters))
          /\ (Len(jsonData'.activeCostCenters) + Len(jsonData'.deletedCostCenters)
                = Len(jsonData'.costCenters))
               <=> OfOtherState(jsonData'.costCenters) = {}]_vars

\* C20 witness: a data set of an active record, a deleted record and a record
\* whose state is archived, with one record in each view.
C20_Witness ==
  /\ jsonData # Null
  /\ Len(jsonData.costCenters) = 3
  /\ Cardinality(OfOtherState(jsonData.costCenters)) = 1
  /\ Len(jsonData.activeCostCenters) = 1
  /\ Len(jsonData.deletedCostCenters) = 1

-----------------------------------------------------------------------------
(* Properties of the resource types (SpecPipeline)                         *)

\* The resources of the active records of a list, each by its place.
ActiveResources(records) ==
  UNION {{<<i, j>> : j \in DOMAIN records[i].resources.items} :
           i \in WithState(records, sActive)}

\* Those of them whose type is none of Org, Repo and User.
Unrecognized(records) ==
  {p \in ActiveResources(records) :
     Get(records[p[1]].resources.items[p[2]], "type")
       \notin {Str(sOrg), Str(sRepo), Str(sUser)}}

\* C21: a load of a document whose records have the mandatory fields and whose
\* resources are objects succeeds whatever the types of the resources are, and
\* totalOrganizations, totalRepositories and totalMembers add up to the number
\* of resources of the active cost centers less those whose type is none of
\* Org, Repo and User.
C21_UnrecognizedTypesCountedNowhere ==
  [][(/\ LoadEnds
      /\ JSONparse(input).ok
      /\ RecognizedShape(rawData')
      /\ NothingToRefuse(RecordsOf(rawData')))
       => /\ lastLoad'.ok
          /\ jsonData' # Null
          /\ jsonData'.summary.totalOrganizations + jsonData'.summary.totalRepositories
               + jsonData'.summary.totalMembers
               = Cardinality(ActiveResources(RecordsOf(rawData')))
                   - Cardinality(Unrecognized(RecordsOf(rawData')))]_vars

\* C21 witness: a data set whose active records hold a resource of type Team
\* beside resources of the three types.
C21_Witness ==
  /\ jsonData # Null
  /\ Cardinality(Unrecognized(jsonData.costCenters)) = 1
  /\ jsonData.summary.totalOrganizations = 1
  /\ jsonData.summary.totalRepositories = 1
  /\ jsonData.summary.totalMembers = 2

-----------------------------------------------------------------------------
(* Properties of overlapping loads (Spec)                                  *)

\* The step in which a load ends with a data set.
LoadSucceeds == LoadEnds /\ lastLoad'.ok

\* The step in which a fetch that began before another load ends after it.
EarlierFetchEndsLast ==
  /\ LoadSucceeds
  /\ Len(pending) = 1
  /\ lastLoad'.op \in {"fetch", "save"}
  /\ lastLoad.op = "file"
  /\ lastLoad.ok
  /\ jsonData # Null

\* C22: a load is started while a fetch is in flight whenever the user drops
\* a file then, and of two loads in flight either may end first; the load
\* that ends with a data set sets it whatever is held, so the data set held
\* after both is that of the one that ended last, and the response of the
\* fetch that began first replaces the data set of the load that began after
\* it.
C22_LastCompletionWins ==
  [][/\ LoadSucceeds =>
          /\ jsonData' # Null
          /\ jsonData'.costCenters = RecordsOf(rawData')
          /\ jsonData'.summary = FreshScan(RecordsOf(rawData'))
     /\ EarlierFetchEndsLast =>
          /\ lastLoad'.response.k = "response"
          /\ rawData' = JSONparse(lastLoad'.response.body).value
          /\ jsonData' = processJsonData(rawData').value]_vars

\* C22 witness: a file dropped while a fetch was in flight has been loaded,
\* and the fetch, which began before it, is still to be answered.
C22_Witness ==
  /\ pending = <<"fetch">>
  /\ jsonData # Null
  /\ lastLoad.op = "file"
  /\ lastLoad.ok
  /\ jsonData.costCenters = RecordsOf(rawData)
  /\ rawData # GoodText

-----------------------------------------------------------------------------
(* Properties of a session (SpecSession)                                   *)

\* The three record lists of a data set.
HeldRecords(data) ==
  <<data.costCenters, data.activeCostCenters, data.deletedCostCenters>>

\* C23: the load that succeeds leaves as costCenters the record sequence of
\* its document, the same records in the same order, with the views and the
\* summary of that document alone; and while a data set is held, no step that
\* is not the end of a load (search, filter, sort, expand or collapse, export)
\* changes its records.
C23_DatasetReplacedAndKept ==
  [][/\ (LoadEnds /\ lastLoad'.ok) =>
          /\ jsonData' # Null
          /\ jsonData'.costCenters = RecordsOf(rawData')
          /\ \A i \in DOMAIN jsonData'.activeCostCenters :
               Count(RecordsOf(rawData'), jsonData'.activeCostCenters[i]) > 0
          /\ \A i \in DOMAIN jsonData'.deletedCostCenters :
               Count(RecordsOf(rawData'), jsonData'.deletedCostCenters[i]) > 0
          /\ jsonData'.summary = FreshScan(RecordsOf(rawData'))
     /\ (~LoadEnds /\ jsonData # Null /\ jsonData' # Null) =>
          HeldRecords(jsonData') = HeldRecords(jsonData)]_vars

\* C23 witness: a second document is held, of which nothing was in the first
\* but one record, after a report of the first was exported; the list is
\* displayed in another order than the document's, and a cost center is
\* expanded.
C23_Witness ==
  /\ jsonData # Null
  /\ download # Null
  /\ download.data.costCenters # jsonData.costCenters
  /\ jsonData.costCenters = RecordsOf(rawData)
  /\ Len(jsonData.deletedCostCenters) = 0
  /\ sortBy = "total-resources"
  /\ filteredAndSortedCostCenters.ok
  /\ Len(filteredAndSortedCostCenters.value) = 2
  /\ filteredAndSortedCostCenters.value # jsonData.activeCostCenters
  /\ expandedCenters # {}

-----------------------------------------------------------------------------
(* Properties of the budget/actual variant (SpecBudget)                    *)

\* The record list of a budget document of one of the three shapes.
BudgetRecordsOf(v) ==
  IF v.k = "array" THEN v.items
  ELSE IF "costCenters" \in DOMAIN v THEN v.costCenters.items
  ELSE v.data.items

\* A budget document of a recognized shape whose records are all objects.
BudgetDocument(v) ==
  /\ \/ v.k = "array"
     \/ v.k = "object" /\ "costCenters" \in DOMAIN v /\ v.costCenters.k = "array"
     \/ v.k = "object" /\ "data" \in DOMAIN v /\ v.data.k = "array"
  /\ \A i \in DOMAIN BudgetRecordsOf(v) : BudgetRecordsOf(v)[i].k = "object"

\* The value of a field is a number, and the one the document gave when that
\* was a number.
CoercedFrom(given, field, held) ==
  /\ held[field].k = "number"
  /\ (field \in DOMAIN given /\ given[field].k = "number") => held[field] = given[field]
  /\ (field \notin DOMAIN given) => held[field] = Num(0)

\* Every record has a budget and an actual that are numbers, and its variance
\* is the actual less the budget.
BudgetsCoerced(given, held) ==
  /\ Len(held) = Len(given)
  /\ \A i \in DOMAIN held :
       /\ CoercedFrom(given[i], "budget", held[i])
       /\ CoercedFrom(given[i], "actual", held[i])
       /\ held[i].variance = Minus(held[i].actual, held[i].budget)

\* C24: the load of a budget document never fails on the content of a record:
\* budget and actual are numbers afterwards, 0 where there was nothing to
\* parse, variance is actual less budget, and overBudget, underBudget and
\* onBudget add up to the number of records.
C24_BudgetCountsPartition ==
  [][(LoadEnds /\ JSONparse(input).ok /\ BudgetDocument(rawData'))
       => /\ lastLoad'.ok
          /\ jsonData' # Null
          /\ BudgetsCoerced(BudgetRecordsOf(rawData'), jsonData'.costCenters)
          /\ jsonData'.summary.overBudget + jsonData'.summary.underBudget
               + jsonData'.summary.onBudget = Len(jsonData'.costCenters)]_vars

-----------------------------------------------------------------------------
(* Properties of the loading flag (Spec)                                   *)

\* C25: isLoading is true whenever a load operation has begun and not yet
\* ended.
C25_LoadingWhileInFlight == pending # << >> => isLoading

-----------------------------------------------------------------------------
(* Properties of the engine on accepted documents (SpecView)               *)

\* C26: whenever a data set is held, so that processJsonData accepted the
\* document, the filter and sort computation ends without throwing, whatever
\* the search query, the two filters and the sort order are.
C26_EngineTotalOnAcceptedDocuments ==
  jsonData # Null => filteredAndSortedCostCenters.ok

-----------------------------------------------------------------------------
(* Properties of the end of a load (Spec)                                  *)

\* C27: the step in which the read or the request of a load settles ends the
\* load: isLoading is false after it, and either the data set is the one the
\* load processed and no message is shown, or a message is shown and the data
\* set is left as it was.
C27_LoadEndsWithOneOutcome ==
  [][LoadEnds =>
       /\ ~isLoading'
       /\ \/ /\ lastLoad'.ok
             /\ jsonData' # Null
             /\ jsonData'.costCenters = RecordsOf(rawData')
             /\ error' = ""
          \/ /\ ~lastLoad'.ok
             /\ error' # ""
             /\ jsonData' = jsonData]_vars

-----------------------------------------------------------------------------
(* Properties of the view parameters (SpecParams)                          *)

filterVars == <<searchQuery, resourceTypeFilter, hasResourcesFilter, sortBy>>

\* The step of one filter control: one of the four parameters changes.
FilterControlStep ==
  /\ expandedCenters' = expandedCenters
  /\ Cardinality({i \in 1..4 : filterVars'[i] # filterVars[i]}) = 1

\* The step of clearFilters: the four parameters are put back.
ClearFiltersStep ==
  /\ expandedCenters' = expandedCenters
  /\ filterVars' = <<<< >>, sAll, "all", "name">>

\* The step of toggleCenterExpansion: one id enters or leaves the set.
ToggleStep ==
  /\ filterVars' = filterVars
  /\ \E id \in (expandedCenters \cup expandedCenters') :
       \/ id \notin expandedCenters /\ expandedCenters' = expandedCenters \cup {id}
       \/ id \in expandedCenters /\ expandedCenters' = expandedCenters \ {id}

\* The step in which a load begins or ends, or a data set is set or dropped.
LoadOrDiscardStep ==
  \/ pending' # pending
  \/ lastLoad' # lastLoad
  \/ (jsonData = Null) # (jsonData' = Null)

\* C28: the steps that begin or end a load, set a data set or drop it ('Load
\* New Data') leave searchQuery, resourceTypeFilter, hasResourcesFilter, sortBy
\* and the expanded ids as they are; these change only in the step of a
\* filter control, of clearFilters or of toggleCenterExpansion, with the data
\* set left in place.
C28_ViewParametersOutliveTheDataset ==
  [][/\ LoadOrDiscardStep => viewVars' = viewVars
     /\ viewVars' # viewVars =>
          /\ FilterControlStep \/ ClearFiltersStep \/ ToggleStep
          /\ jsonData # Null /\ jsonData' # Null]_vars

\* C28 witness: the example data is held with a query and a sort order set,
\* and with a cost center expanded that is not in it: the one of the document
\* held before.
C28_Witness ==
  /\ jsonData # Null
  /\ lastLoad.op = "example"
  /\ searchQuery = <<"A">>
  /\ sortBy = "orgs"
  /\ expandedCenters = {Str(<<"A">>)}
  /\ \A i \in DOMAIN jsonData.costCenters : jsonData.costCenters[i].id # Str(<<"A">>)

-----------------------------------------------------------------------------
(* Properties of the refused save and fetch (SpecApi)                      *)

\* s is empty or white space alone.
Blank(s) == \A i \in DOMAIN s : s[i] = " "

\* v is a string that is not empty and has no white space at either end.
FilledAndTrimmed(v) ==
  /\ v.k = "string"
  /\ v.s # << >>
  /\ Head(v.s) # " "
  /\ v.s[Len(v.s)] # " "

SaveRefusals ==
  {"GitHub Personal Access Token is required", "Enterprise slug is required"}

\* The step in which a save is refused with a message not yet shown.
SaveRefused == error' \in SaveRefusals /\ error' # error

\* The step in which the request of a save or of a fetch is issued.
RequestIssued(op) == pending' = Append(pending, op)

\* C29: a save is refused only with a blank token or a blank enterprise, and
\* the refusal changes nothing but the error; the request of a save is issued
\* only with both fields filled, and with it the two fields are emptied; the
\* request of a fetch is issued only with a token and an enterprise stored;
\* and a stored configuration always holds a token and an enterprise that are
\* not empty and are trimmed, with the two fields empty beside it.
C29_BlankSaveRefused ==
  /\ [](apiConfig # Null =>
          /\ apiConfig.k = "object"
          /\ FilledAndTrimmed(apiConfig.token)
          /\ FilledAndTrimmed(apiConfig.enterprise)
          /\ tempToken = << >>
          /\ tempEnterprise = << >>)
  /\ [][/\ SaveRefused =>
             /\ Blank(tempToken) \/ Blank(tempEnterprise)
             /\ UNCHANGED <<jsonData, isLoading, isDragOver, apiVars, viewVars, pending,
                            download, rawData, input, lastLoad>>
        /\ RequestIssued("save") =>
             /\ ~Blank(tempToken) /\ ~Blank(tempEnterprise)
             /\ apiConfig' # Null
             /\ tempToken' = << >> /\ tempEnterprise' = << >>
        /\ RequestIssued("fetch") =>
             /\ apiConfig # Null
             /\ Truthy(apiConfig.token) /\ Truthy(apiConfig.enterprise)
        /\ (Blank(tempToken) \/ Blank(tempEnterprise)) =>
             /\ apiConfig' # Null => apiConfig' = apiConfig
             /\ ~RequestIssued("save")]_vars

\* C29 witness: the save of a token of white space alone, beside a filled
\* enterprise, was refused: nothing is stored, sent or loading.
C29_Witness ==
  /\ error = "GitHub Personal Access Token is required"
  /\ tempToken = <<" ">>
  /\ tempEnterprise = <<" ", "t", " ">>
  /\ apiConfig = Null
  /\ pending = << >>
  /\ ~isLoading
  /\ lastLoad.op = "save"

-----------------------------------------------------------------------------
(* Properties of the banner of the loaded data (SpecConfig)                *)

\* C30: the label 'Loaded from GitHub API for enterprise' is shown only over
\* a data set that a fetch from the API produced: when the load that ended
\* last succeeded, and so set the data set held, it was a fetch or the fetch
\* of a save.
C30_LabelOnlyOverApiData ==
  (LoadedFromApiLabelShown /\ lastLoad.ok) => lastLoad.op \in {"fetch", "save"}

====
